---- MODULE Spec2Model ----
(***************************************************************************)
(* OmniSync: the RGA sequence engine (core/sequence.hpp), its Lamport and  *)
(* vector clocks, and the peers that exchange its atoms and deletes.       *)
(*                                                                         *)
(* A Sequence object is a record; every method of the class is an operator *)
(* from the record (and the call's arguments) to the record after the      *)
(* call.  The actions apply the methods to the peers of a small network.   *)
(***************************************************************************)
EXTENDS Integers, Sequences, FiniteSets, TLC

(***************************************************************************)
(* Bounds of the model.                                                    *)
(***************************************************************************)
\* Peers are Sequence(1) .. Sequence(NumPeers).
NumPeers == 2
\* Local operations (localInsert + localDelete) over all peers in one run.
MaxOps == 4

Peers == 1..NumPeers
\* The content byte of the n-th local operation of a run: every insert types a
\* byte of its own, so that toString() shows the order of the atoms (0, NUL, is
\* the content of the start node and is never typed).
CharOf(n) == n

Max(a, b) == IF a >= b THEN a ELSE b

(***************************************************************************)
(* crdt_atom.hpp                                                           *)
(***************************************************************************)
OpID(client_id, clock) == [client_id |-> client_id, clock |-> clock]

\* OpID::operator<
OpLess(a, b) ==
    IF a.clock # b.clock THEN a.clock < b.clock ELSE a.client_id < b.client_id

\* Atom(OpID, OpID, char): is_deleted starts false.
Atom(id, origin, content) ==
    [id |-> id, origin |-> origin, content |-> content, is_deleted |-> FALSE]

\* Atom(): the default-constructed atom that carries a delete on the wire.
DefaultAtom == [id |-> OpID(0, 0), origin |-> OpID(0, 0), content |-> 0, is_deleted |-> TRUE]

\* The id of the start node.
start_id == OpID(0, 0)

(***************************************************************************)
(* lamport_clock.hpp                                                       *)
(***************************************************************************)
\* LamportClock::tick: ++counter, returns the new value.
LamportTick(counter) == counter + 1

\* LamportMerge that stops at the maximum.
LamportMergeNoStep(counter, received_time) == Max(counter, received_time)

\* LamportClock::merge: counter = max(counter, received_time) + 1.
LamportMerge(counter, received_time) == Max(counter, received_time) + 1

(***************************************************************************)
(* vector_clock.hpp: a VectorClock is its map `clock`, a function whose    *)
(* domain is the set of client ids that have an entry.                     *)
(***************************************************************************)
\* VectorClock(client_id): clock[my_id] = 0.
NewVectorClock(client_id) == [k \in {client_id} |-> 0]

\* VectorClock::get
VCGet(vc, client_id) == IF client_id \in DOMAIN vc THEN vc[client_id] ELSE 0

\* VectorClock::tick: clock[my_id]++ (operator[] creates a missing entry).
VCTick(vc, my_id) ==
    [k \in DOMAIN vc \cup {my_id} |-> IF k = my_id THEN VCGet(vc, my_id) + 1 ELSE vc[k]]

\* update that stores the time it is given, whatever the entry holds.
VCUpdateOverwrite(vc, client_id, time) ==
    [k \in DOMAIN vc \cup {client_id} |-> IF k = client_id THEN time ELSE vc[k]]

\* VectorClock::update: clock[client_id] = max(clock[client_id], time).
VCUpdate(vc, client_id, time) ==
    [k \in DOMAIN vc \cup {client_id} |->
        IF k = client_id THEN Max(VCGet(vc, client_id), time) ELSE vc[k]]

\* VectorClock::merge: pointwise max over other's entries.
VCMerge(vc, other) ==
    [k \in DOMAIN vc \cup DOMAIN other |->
        IF k \in DOMAIN other THEN Max(VCGet(vc, k), other[k]) ELSE vc[k]]

\* VectorClock::compare: -1, 1 or 0 over the ids of both clocks; the last two
\* returns of the code, for equal and for concurrent clocks, are both 0.
compare(vc, other) ==
    LET all_ids == DOMAIN vc \cup DOMAIN other
        this_less == \E id \in all_ids : VCGet(vc, id) < VCGet(other, id)
        this_greater == \E id \in all_ids : VCGet(vc, id) > VCGet(other, id)
    IN  IF this_less /\ ~this_greater THEN -1
        ELSE IF ~this_less /\ this_greater THEN 1
        ELSE IF ~this_less /\ ~this_greater THEN 0
        ELSE 0

(***************************************************************************)
(* sequence.hpp: the Sequence object.                                      *)
(*   atoms            std::list<Atom>, the start node first                *)
(*   atom_index       the ids that have an entry in the iterator map; the  *)
(*                    entry of an id is the node of `atoms` with that id   *)
(*   pending_orphans  parent id -> the atoms waiting for that parent       *)
(*   pending_deletes  ids whose delete arrived before the atom             *)
(***************************************************************************)
\* GCConfig's default member initialisers.
DefaultTombstoneThreshold == 1000
DefaultMinAgeThreshold == 100
GCConfig == [auto_gc_enabled |-> FALSE,
             tombstone_threshold |-> DefaultTombstoneThreshold,
             min_age_threshold |-> DefaultMinAgeThreshold]

\* OrphanConfig's default member initialisers.
DefaultMaxOrphanBufferSize == 10000
DefaultMaxOrphanAge == 1000
OrphanConfig == [max_orphan_buffer_size |-> DefaultMaxOrphanBufferSize,
                 max_orphan_age |-> DefaultMaxOrphanAge]

\* An unordered_map with no entry.
EmptyMap == [k \in {} |-> <<>>]

\* Sequence(client_id): the start node is in the list and in the index.
Sequence(client_id) ==
    [my_client_id |-> client_id,
     clock |-> 0,
     vector_clock |-> NewVectorClock(client_id),
     vc_my_id |-> client_id,          \* vector_clock.my_id, which load() leaves alone
     atoms |-> <<Atom(start_id, start_id, 0)>>,
     atom_index |-> {start_id},
     pending_orphans |-> EmptyMap,
     pending_deletes |-> {},
     gc_config |-> GCConfig,
     tombstone_count |-> 0,
     orphan_config |-> OrphanConfig,
     total_orphan_count |-> 0,
     gc_stats_ |-> [total_gc_runs |-> 0, total_tombstones_removed |-> 0]]

\* The node an index entry points at: the list position of the atom with this id
\* (load() leaves the entry of a repeated id at the last node read).
PosOf(atoms, id) ==
    CHOOSE i \in 1..Len(atoms) :
        atoms[i].id = id /\ \A j \in (i + 1)..Len(atoms) : atoms[j].id # id

\* std::list::insert(pos, a): a goes before position pos.
ListInsert(atoms, pos, a) ==
    SubSeq(atoms, 1, pos - 1) \o <<a>> \o SubSeq(atoms, pos, Len(atoms))

\* std::list::erase(pos)
ListErase(atoms, pos) ==
    SubSeq(atoms, 1, pos - 1) \o SubSeq(atoms, pos + 1, Len(atoms))

\* unordered_map::erase(key)
MapErase(m, key) == [k \in DOMAIN m \ {key} |-> m[k]]

\* m[key] = value, creating the entry when it is missing.
MapPut(m, key, value) == [k \in DOMAIN m \cup {key} |-> IF k = key THEN value ELSE m[k]]

\* Sequence::toString: the contents of the atoms that are neither deleted nor NUL.
IsVisible(a) == ~a.is_deleted /\ a.content # 0
toString(s) == LET vis == SelectSeq(s.atoms, IsVisible)
               IN  [i \in 1..Len(vis) |-> vis[i].content]

\* VectorClock::computeMinimum over a non-empty set of clocks: for every client
\* some clock names, the least entry (a clock that lacks the client reads 0).
computeMinimum(clocks) ==
    LET ids == UNION {DOMAIN vc : vc \in clocks}
        MinTime(id) == CHOOSE t \in {VCGet(vc, id) : vc \in clocks} :
                           \A vc \in clocks : t <= VCGet(vc, id)
    IN  [id \in ids |-> MinTime(id)]

(***************************************************************************)
(* Garbage collection.                                                     *)
(***************************************************************************)
\* MemoryStats::GCStats::recordGCRun (the durations are wall-clock time and are
\* left out).
recordGCRun(stats, removed) ==
    [total_gc_runs |-> stats.total_gc_runs + 1,
     total_tombstones_removed |-> stats.total_tombstones_removed + removed]

\* removeTombstones that erases the node and leaves its index entry.
RECURSIVE removeTombstonesKeepIndex(_, _)
removeTombstonesKeepIndex(s, to_remove) ==
    IF to_remove = <<>> THEN s
    ELSE LET id == Head(to_remove)
         IN  IF id \in s.atom_index
             THEN removeTombstonesKeepIndex(
                      [s EXCEPT !.atoms = ListErase(@, PosOf(@, id)),
                                !.tombstone_count = @ - 1],
                      Tail(to_remove))
             ELSE removeTombstonesKeepIndex(s, Tail(to_remove))

\* Sequence::removeTombstones: each id that is still indexed loses its node and
\* its index entry, and takes one off tombstone_count.
RECURSIVE removeTombstones(_, _)
removeTombstones(s, to_remove) ==
    IF to_remove = <<>> THEN s
    ELSE LET id == Head(to_remove)
         IN  IF id \in s.atom_index
             THEN removeTombstones(
                      [s EXCEPT !.atoms = ListErase(@, PosOf(@, id)),
                                !.atom_index = @ \ {id},
                                !.tombstone_count = @ - 1],
                      Tail(to_remove))
             ELSE removeTombstones(s, Tail(to_remove))

IdsOf(seq) == [i \in 1..Len(seq) |-> seq[i].id]

\* FrontierToRemove with the frontier test off by one (< for <=).
FrontierToRemoveStrict(s, stable_frontier) ==
    LET Old(a) == /\ ~(a.id.client_id = 0 /\ a.id.clock = 0)
                  /\ a.is_deleted
                  /\ a.id.clock < VCGet(stable_frontier, a.id.client_id)
    IN  IdsOf(SelectSeq(s.atoms, Old))

\* The to_remove vector of garbageCollect(stable_frontier).
FrontierToRemove(s, stable_frontier) ==
    LET Old(a) == /\ ~(a.id.client_id = 0 /\ a.id.clock = 0)
                  /\ a.is_deleted
                  /\ a.id.clock <= VCGet(stable_frontier, a.id.client_id)
    IN  IdsOf(SelectSeq(s.atoms, Old))

\* Sequence::garbageCollect: the state after the call.
garbageCollect(s, stable_frontier) ==
    LET to_remove == FrontierToRemove(s, stable_frontier)
        s1 == removeTombstones(s, to_remove)
    IN  [s1 EXCEPT !.gc_stats_ = recordGCRun(@, Len(to_remove))]

\* Sequence::garbageCollect: the value returned, to_remove.size().
garbageCollectResult(s, stable_frontier) == Len(FrontierToRemove(s, stable_frontier))

\* LocalToRemove without the test of the deleted flag.
LocalToRemoveAnyAtom(s, min_age_threshold) ==
    LET current_time == s.clock
        safe_time == IF current_time > min_age_threshold
                     THEN current_time - min_age_threshold ELSE 0
        Old(a) == /\ ~(a.id.client_id = 0 /\ a.id.clock = 0)
                  /\ a.id.clock <= safe_time
    IN  IdsOf(SelectSeq(s.atoms, Old))

\* The to_remove vector of garbageCollectLocal(min_age_threshold).
LocalToRemove(s, min_age_threshold) ==
    LET current_time == s.clock
        safe_time == IF current_time > min_age_threshold
                     THEN current_time - min_age_threshold ELSE 0
        Old(a) == /\ ~(a.id.client_id = 0 /\ a.id.clock = 0)
                  /\ a.is_deleted
                  /\ a.id.clock <= safe_time
    IN  IdsOf(SelectSeq(s.atoms, Old))

\* Sequence::garbageCollectLocal: the state after the call.
garbageCollectLocal(s, min_age_threshold) ==
    LET to_remove == LocalToRemove(s, min_age_threshold)
        s1 == removeTombstones(s, to_remove)
    IN  [s1 EXCEPT !.gc_stats_ = recordGCRun(@, Len(to_remove))]

\* The "Auto-GC check" that ends remoteMerge and localDelete.
AutoGC(s) ==
    IF s.gc_config.auto_gc_enabled /\ s.tombstone_count >= s.gc_config.tombstone_threshold
    THEN garbageCollectLocal(s, s.gc_config.min_age_threshold)
    ELSE s

(***************************************************************************)
(* Orphan eviction.                                                        *)
(***************************************************************************)
\* One slot <<parent_id, i>> per buffered orphan.
OrphanSlots(po) == UNION {{<<k, i>> : i \in 1..Len(po[k])} : k \in DOMAIN po}

\* The pair {orphan.id.clock, parent_id} that evictOldOrphans sorts.
OrphanAge(po, slot) == <<po[slot[1]][slot[2]].id.clock, slot[1]>>

\* operator< of std::pair<uint64_t, OpID>
AgeLess(x, y) == x[1] < y[1] \/ (x[1] = y[1] /\ OpLess(x[2], y[2]))

\* orphan_ages after std::sort.
RECURSIVE SortedAges(_, _)
SortedAges(po, slots) ==
    IF slots = {} THEN <<>>
    ELSE LET m == CHOOSE x \in slots :
                      \A y \in slots : ~AgeLess(OrphanAge(po, y), OrphanAge(po, x))
         IN  <<OrphanAge(po, m)>> \o SortedAges(po, slots \ {m})

\* std::min_element by id.clock: the first child with the smallest clock.
OldestChild(children) ==
    CHOOSE i \in 1..Len(children) :
        /\ \A j \in 1..Len(children) : children[i].id.clock <= children[j].id.clock
        /\ \A j \in 1..(i - 1) : children[j].id.clock > children[i].id.clock

\* The eviction loop of evictOldOrphans, from entry i (1-based) of orphan_ages.
RECURSIVE EvictLoop(_, _, _, _)
EvictLoop(s, orphan_ages, i, to_evict) ==
    IF i > to_evict \/ i > Len(orphan_ages) THEN s
    ELSE LET parent_id == orphan_ages[i][2]
         IN  IF parent_id \in DOMAIN s.pending_orphans /\ s.pending_orphans[parent_id] # <<>>
             THEN LET children == s.pending_orphans[parent_id]
                      rest == ListErase(children, OldestChild(children))
                      s1 == [s EXCEPT !.pending_orphans =
                                          IF rest = <<>> THEN MapErase(@, parent_id)
                                          ELSE MapPut(@, parent_id, rest),
                                      !.total_orphan_count = @ - 1]
                  IN  EvictLoop(s1, orphan_ages, i + 1, to_evict)
             ELSE EvictLoop(s, orphan_ages, i + 1, to_evict)

\* evictOldOrphans that evicts one orphan however many are buffered.
evictOldOrphansOne(s) ==
    IF DOMAIN s.pending_orphans = {} THEN s
    ELSE LET orphan_ages == SortedAges(s.pending_orphans, OrphanSlots(s.pending_orphans))
         IN  EvictLoop(s, orphan_ages, 1, 1)

\* Sequence::evictOldOrphans
evictOldOrphans(s) ==
    IF DOMAIN s.pending_orphans = {} THEN s
    ELSE LET orphan_ages == SortedAges(s.pending_orphans, OrphanSlots(s.pending_orphans))
             to_evict == Max(1, Len(orphan_ages) \div 10)
         IN  EvictLoop(s, orphan_ages, 1, to_evict)

(***************************************************************************)
(* Remote merge: the placement algorithm.                                  *)
(***************************************************************************)
\* ScanFrom without the rule that orders siblings by id.
RECURSIVE ScanFromNoTieBreak(_, _, _)
ScanFromNoTieBreak(atoms, current_it, new_atom) ==
    IF current_it > Len(atoms) THEN current_it
    ELSE IF atoms[current_it].origin.clock < new_atom.origin.clock THEN current_it
         ELSE ScanFromNoTieBreak(atoms, current_it + 1, new_atom)

\* The scan of remoteMerge from current_it: the position the new atom is
\* inserted before (Len(atoms) + 1 is atoms.end()).
RECURSIVE ScanFrom(_, _, _)
ScanFrom(atoms, current_it, new_atom) ==
    IF current_it > Len(atoms) THEN current_it
    ELSE LET c == atoms[current_it]
         IN  IF c.origin.clock < new_atom.origin.clock THEN current_it
             ELSE IF c.origin = new_atom.origin /\ OpLess(new_atom.id, c.id)
                  THEN current_it
                  ELSE ScanFrom(atoms, current_it + 1, new_atom)

\* remoteMerge that leaves the Lamport clock alone.
MergeClocksVectorOnly(s, new_atom) ==
    [s EXCEPT !.vector_clock = VCUpdate(@, new_atom.id.client_id, new_atom.id.clock)]

\* The first two statements of remoteMerge: both clocks take the atom's id.
MergeClocks(s, new_atom) ==
    [s EXCEPT !.clock = LamportMerge(@, new_atom.id.clock),
              !.vector_clock = VCUpdate(@, new_atom.id.client_id, new_atom.id.clock)]

\* remoteMerge's orphan branch: evict when the buffer is at its bound, then buffer.
BufferOrphan(s, new_atom) ==
    LET s1 == IF s.total_orphan_count >= s.orphan_config.max_orphan_buffer_size
              THEN evictOldOrphans(s) ELSE s
        waiting == IF new_atom.origin \in DOMAIN s1.pending_orphans
                   THEN s1.pending_orphans[new_atom.origin] ELSE <<>>
    IN  [s1 EXCEPT !.pending_orphans = MapPut(@, new_atom.origin, Append(waiting, new_atom)),
                   !.total_orphan_count = @ + 1]

\* PlaceAtom that does not look at the pending deletes.
PlaceAtomIgnorePending(s, new_atom) ==
    LET current_it == ScanFrom(s.atoms, PosOf(s.atoms, new_atom.origin) + 1, new_atom)
    IN  [s EXCEPT !.atoms = ListInsert(@, current_it, new_atom),
                  !.atom_index = @ \cup {new_atom.id}]

\* remoteMerge's placement: insert after the scan, index the atom, and apply a
\* delete that was waiting for it.
PlaceAtom(s, new_atom) ==
    LET current_it == ScanFrom(s.atoms, PosOf(s.atoms, new_atom.origin) + 1, new_atom)
        was_pending == new_atom.id \in s.pending_deletes
        placed == IF was_pending THEN [new_atom EXCEPT !.is_deleted = TRUE] ELSE new_atom
    IN  [s EXCEPT !.atoms = ListInsert(@, current_it, placed),
                  !.atom_index = @ \cup {new_atom.id},
                  !.tombstone_count = IF was_pending THEN @ + 1 ELSE @,
                  !.pending_deletes = @ \ {new_atom.id}]

\* Sequence::remoteMerge, with Sequence::checkPendingOrphans and its loop over
\* the children it took out of the buffer.
RECURSIVE remoteMerge(_, _)
RECURSIVE checkPendingOrphans(_, _)
RECURSIVE MergeChildren(_, _)

remoteMerge(s, new_atom) ==
    LET s1 == MergeClocks(s, new_atom)
    IN  IF new_atom.id \in s1.atom_index THEN s1
        ELSE IF new_atom.origin \notin s1.atom_index THEN BufferOrphan(s1, new_atom)
        ELSE AutoGC(checkPendingOrphans(PlaceAtom(s1, new_atom), new_atom.id))

\* checkPendingOrphans that leaves the children in the buffer.
checkPendingOrphansNoDrain(s, just_inserted_id) == s

checkPendingOrphans(s, just_inserted_id) ==
    IF just_inserted_id \in DOMAIN s.pending_orphans
    THEN LET children == s.pending_orphans[just_inserted_id]
         IN  MergeChildren([s EXCEPT !.pending_orphans = MapErase(@, just_inserted_id),
                                     !.total_orphan_count = @ - Len(children)],
                           children)
    ELSE s

MergeChildren(s, children) ==
    IF children = <<>> THEN s
    ELSE MergeChildren(remoteMerge(s, Head(children)), Tail(children))

(***************************************************************************)
(* Local edits and remote delete.                                          *)
(***************************************************************************)
\* InsertWalk that falls back to the head, not to the last node, when the
\* index lies beyond the text.
RECURSIVE InsertWalkClampToStart(_, _, _)
InsertWalkClampToStart(atoms, it, steps_needed) ==
    LET a == atoms[it]
    IN  IF IsVisible(a) /\ steps_needed = 0 THEN it
        ELSE LET steps == IF IsVisible(a) THEN steps_needed - 1 ELSE steps_needed
             IN  IF a.content = 0 /\ steps = 0 THEN it
                 ELSE IF it + 1 > Len(atoms) THEN 1
                 ELSE InsertWalkClampToStart(atoms, it + 1, steps)

\* The walk of localInsert from list position `it`: the position of the node
\* whose id becomes the new atom's origin.
RECURSIVE InsertWalk(_, _, _)
InsertWalk(atoms, it, steps_needed) ==
    LET a == atoms[it]
    IN  IF IsVisible(a) /\ steps_needed = 0 THEN it
        ELSE LET steps == IF IsVisible(a) THEN steps_needed - 1 ELSE steps_needed
             IN  IF a.content = 0 /\ steps = 0 THEN it
                 ELSE IF it + 1 > Len(atoms) THEN it
                 ELSE InsertWalk(atoms, it + 1, steps)

\* Sequence::localInsert: the atom it builds and returns.
localInsertAtom(s, literal_index, content) ==
    LET tick == LamportTick(s.clock)
        new_id == OpID(s.my_client_id, tick)
        parent_id == s.atoms[InsertWalk(s.atoms, 1, literal_index)].id
    IN  Atom(new_id, parent_id, content)

\* Sequence::localInsert: the state after the call (both clocks tick, then the
\* atom goes through remoteMerge).
localInsert(s, literal_index, content) ==
    LET s1 == [s EXCEPT !.clock = LamportTick(@),
                        !.vector_clock = VCTick(@, s.vc_my_id)]
    IN  remoteMerge(s1, localInsertAtom(s, literal_index, content))

\* The walk of localDelete: the list position of the atom visible at
\* literal_index, or 0 when the walk reaches atoms.end().
RECURSIVE DeleteWalk(_, _, _, _)
DeleteWalk(atoms, it, current_visual_idx, literal_index) ==
    IF it > Len(atoms) THEN 0
    ELSE IF IsVisible(atoms[it])
         THEN IF current_visual_idx = literal_index THEN it
              ELSE DeleteWalk(atoms, it + 1, current_visual_idx + 1, literal_index)
         ELSE DeleteWalk(atoms, it + 1, current_visual_idx, literal_index)

\* Sequence::localDelete: the state after the call.
localDelete(s, literal_index) ==
    LET s1 == [s EXCEPT !.clock = LamportTick(@),
                        !.vector_clock = VCTick(@, s.vc_my_id)]
        it == DeleteWalk(s1.atoms, 1, 0, literal_index)
    IN  IF it # 0
        THEN AutoGC([s1 EXCEPT !.atoms[it].is_deleted = TRUE,
                               !.tombstone_count = @ + 1])
        ELSE s1

\* Sequence::localDelete: the id it returns ({0,0} when nothing is visible there).
localDeleteResult(s, literal_index) ==
    LET it == DeleteWalk(s.atoms, 1, 0, literal_index)
    IN  IF it # 0 THEN s.atoms[it].id ELSE OpID(0, 0)

\* The values `return it->id` can produce.  When the auto-GC of localDelete has
\* erased the node it points to, the read is of a freed list node: the id may
\* still be there or may have been overwritten (modelled by {0,0}).
localDeleteReturns(s, literal_index) ==
    LET id == localDeleteResult(s, literal_index)
    IN  IF id \in localDelete(s, literal_index).atom_index
        THEN {id}
        ELSE {id, OpID(0, 0)}

\* remoteDelete that drops the delete of an atom it does not hold.
remoteDeleteKnownOnly(s, target_id) ==
    IF target_id \in s.atom_index
    THEN LET it == PosOf(s.atoms, target_id)
         IN  IF ~s.atoms[it].is_deleted
             THEN [s EXCEPT !.atoms[it].is_deleted = TRUE, !.tombstone_count = @ + 1]
             ELSE s
    ELSE s

\* Sequence::remoteDelete
remoteDelete(s, target_id) ==
    IF target_id \in s.atom_index
    THEN LET it == PosOf(s.atoms, target_id)
         IN  IF ~s.atoms[it].is_deleted
             THEN [s EXCEPT !.atoms[it].is_deleted = TRUE, !.tombstone_count = @ + 1]
             ELSE s
    ELSE [s EXCEPT !.pending_deletes = @ \cup {target_id}]

(***************************************************************************)
(* Delta sync.                                                             *)
(***************************************************************************)
\* Sequence::getDelta: the atoms, in list order, whose clock is above the peer's
\* entry for their author.
getDelta(s, peer_state) ==
    LET Missing(a) == /\ ~(a.id.client_id = 0 /\ a.id.clock = 0)
                      /\ a.id.clock > VCGet(peer_state, a.id.client_id)
    IN  SelectSeq(s.atoms, Missing)

\* Sequence::applyDelta
RECURSIVE applyDelta(_, _)
applyDelta(s, delta) ==
    IF delta = <<>> THEN s
    ELSE LET atom == Head(delta)
         IN  applyDelta(IF atom.is_deleted THEN remoteDelete(s, atom.id)
                        ELSE remoteMerge(s, atom),
                        Tail(delta))

\* Sequence::mergeVectorClock
mergeVectorClock(s, peer_clock) == [s EXCEPT !.vector_clock = VCMerge(@, peer_clock)]

\* Sequence::setGCConfig
setGCConfig(s, config) == [s EXCEPT !.gc_config = config]

\* Sequence::setOrphanConfig
setOrphanConfig(s, config) == [s EXCEPT !.orphan_config = config]

(***************************************************************************)
(* Persistence: save() writes the client id, the Lamport clock, the vector *)
(* clock and every atom; load() rebuilds the list and the index from them. *)
(***************************************************************************)
\* save() that writes every atom as live.
SaveAtomLive(a) ==
    [id |-> a.id, origin |-> a.origin, content |-> a.content % 256, del |-> 0]

\* The bytes save() writes for one atom: the tombstone flag is one byte, 0 or 1,
\* and the content is one byte.
SaveAtom(a) ==
    [id |-> a.id, origin |-> a.origin, content |-> a.content % 256,
     del |-> IF a.is_deleted THEN 1 ELSE 0]

\* The atom load() reads back.
LoadAtom(b) ==
    [id |-> b.id, origin |-> b.origin, content |-> b.content, is_deleted |-> (b.del = 1)]

\* Sequence::save: the stream it writes.
save(s) ==
    [magic |-> "OMNI", ver |-> 2,
     my_client_id |-> s.my_client_id,
     clock_val |-> s.clock,
     vector_clock |-> s.vector_clock,
     atoms |-> [i \in 1..Len(s.atoms) |-> SaveAtom(s.atoms[i])]]

\* Sequence::load: the value it returns.
loadResult(in) == in.magic = "OMNI" /\ (in.ver = 1 \/ in.ver = 2)

\* Sequence::load: the state after the call.  The list, the index and the two
\* buffers are cleared; the counters, the configuration and vector_clock.my_id
\* are not touched.
load(s, in) ==
    IF ~loadResult(in) THEN s
    ELSE LET loaded == [i \in 1..Len(in.atoms) |-> LoadAtom(in.atoms[i])]
         IN  [s EXCEPT !.atoms = loaded,
                       !.atom_index = {loaded[i].id : i \in 1..Len(loaded)},
                       !.pending_orphans = EmptyMap,
                       !.pending_deletes = {},
                       !.my_client_id = in.my_client_id,
                       !.clock = LamportMerge(@, in.clock_val),
                       !.vector_clock = IF in.ver = 2 THEN in.vector_clock ELSE @]

(***************************************************************************)
(* GCCoordinator (core/gc_coordinator.hpp).  Time is counted in            *)
(* milliseconds from the construction of the coordinator; the field `now`  *)
(* is what std::chrono::steady_clock::now() returns.                       *)
(***************************************************************************)
\* VectorClock(): no entry.
EmptyVectorClock == [k \in {} |-> 0]

\* Config's default member initialisers.
DefaultHeartbeatIntervalMs == 5000
DefaultPeerTimeoutMs == 30000
DefaultGCIntervalMs == 60000
DefaultMinPeersForGC == 1
Config ==
    [heartbeat_interval_ms |-> DefaultHeartbeatIntervalMs,
     peer_timeout_ms |-> DefaultPeerTimeoutMs,
     gc_interval_ms |-> DefaultGCIntervalMs,
     auto_gc_enabled |-> TRUE,
     min_peers_for_gc |-> DefaultMinPeersForGC]

\* PeerState(id), constructed at time `now`.
PeerState(id, now) ==
    [peer_id |-> id, vector_clock |-> EmptyVectorClock, last_seen |-> now, is_active |-> FALSE]

\* GCCoordinator(my_peer_id, config)
GCCoordinatorWith(my_peer_id, config) ==
    [my_peer_id_ |-> my_peer_id,
     config_ |-> config,
     peers_ |-> EmptyMap,
     last_gc_time_ |-> 0,
     my_vector_clock_ |-> NewVectorClock(my_peer_id),
     now |-> 0]

\* GCCoordinator(my_peer_id)
GCCoordinator(my_peer_id) == GCCoordinatorWith(my_peer_id, Config)

\* std::this_thread::sleep_for(ms), as the coordinator's clock sees it.
sleep_for(c, ms) == [c EXCEPT !.now = @ + ms]

\* GCCoordinator::registerPeer
registerPeer(c, peer_id) ==
    IF peer_id = c.my_peer_id_ \/ peer_id \in DOMAIN c.peers_ THEN c
    ELSE [c EXCEPT !.peers_ = MapPut(@, peer_id, PeerState(peer_id, c.now))]

\* GCCoordinator::updatePeerState (an unknown peer is registered first; a
\* coordinator's own id cannot be registered, and the code then writes through
\* end(): updatePeerStateOutcomes covers those calls).
updatePeerState(c, peer_id, vc) ==
    LET c1 == registerPeer(c, peer_id)
    IN  [c1 EXCEPT !.peers_[peer_id] =
             [peer_id |-> peer_id, vector_clock |-> vc, last_seen |-> c.now,
              is_active |-> TRUE]]

\* GCCoordinator::processHeartbeat
processHeartbeat(c, peer_id, vc) == updatePeerState(c, peer_id, vc)

\* GCCoordinator::updatePeerState with any id, as the ways the call can end.
\* With the coordinator's own id find() gives end(), registerPeer returns at
\* once, the second find() gives end() again and the three assignments go
\* through end(): that is undefined, and the call either ends the process (a
\* segmentation fault in the builds tried) or returns with the table as it was.
updatePeerStateOutcomes(c, peer_id, vc) ==
    IF peer_id = c.my_peer_id_
    THEN {[returned |-> FALSE, gc |-> c], [returned |-> TRUE, gc |-> c]}
    ELSE {[returned |-> TRUE, gc |-> updatePeerState(c, peer_id, vc)]}

\* GCCoordinator::processHeartbeat with any id.
processHeartbeatOutcomes(c, peer_id, vc) == updatePeerStateOutcomes(c, peer_id, vc)

\* GCCoordinator::removePeer
removePeer(c, peer_id) == [c EXCEPT !.peers_ = MapErase(@, peer_id)]

\* GCCoordinator::updateMyVectorClock
updateMyVectorClock(c, vc) == [c EXCEPT !.my_vector_clock_ = vc]

\* getActivePeers without the timeout window.
getActivePeersNoTimeout(c) ==
    {id \in DOMAIN c.peers_ : c.peers_[id].is_active}

\* GCCoordinator::getActivePeers: the ids of the peers it returns.
getActivePeers(c) ==
    {id \in DOMAIN c.peers_ :
        LET elapsed == c.now - c.peers_[id].last_seen
        IN  c.peers_[id].is_active /\ elapsed < c.config_.peer_timeout_ms}

\* GCCoordinator::getActivePeerCount
getActivePeerCount(c) == Cardinality(getActivePeers(c))

\* computeStableFrontier that leaves the own clock out.
computeStableFrontierPeersOnly(c) ==
    computeMinimum({c.peers_[id].vector_clock : id \in getActivePeers(c)})

\* GCCoordinator::computeStableFrontier (all_clocks always holds the own clock).
computeStableFrontier(c) ==
    computeMinimum({c.peers_[id].vector_clock : id \in getActivePeers(c)}
                       \cup {c.my_vector_clock_})

\* GCCoordinator::performCoordinatedGC: the document after the call, and the
\* number it returns.
performCoordinatedGC(c, doc) == garbageCollect(doc, computeStableFrontier(c))
performCoordinatedGCResult(c, doc) == garbageCollectResult(doc, computeStableFrontier(c))

\* GCCoordinator::performCoordinatedGC: the coordinator after the call.
performCoordinatedGCCoordinator(c) == [c EXCEPT !.last_gc_time_ = c.now]

\* shouldTriggerGC without the test of the number of active peers.
shouldTriggerGCAnyPeers(c) ==
    LET elapsed == c.now - c.last_gc_time_
    IN  IF ~c.config_.auto_gc_enabled THEN FALSE
        ELSE IF elapsed < c.config_.gc_interval_ms THEN FALSE
        ELSE TRUE

\* GCCoordinator::shouldTriggerGC
shouldTriggerGC(c) ==
    LET elapsed == c.now - c.last_gc_time_
    IN  IF ~c.config_.auto_gc_enabled THEN FALSE
        ELSE IF elapsed < c.config_.gc_interval_ms THEN FALSE
        ELSE IF getActivePeerCount(c) < c.config_.min_peers_for_gc THEN FALSE
        ELSE TRUE

(***************************************************************************)
(* LamportClock used from several threads: tick() is one atomic increment, *)
(* merge() loads the counter and then loops on compare_exchange_weak.      *)
(***************************************************************************)
NumThreads == 2
MaxCounter == 4
Threads == 1..NumThreads

\* compare_exchange_weak that stores without comparing.
compare_exchange_blind(counter, current, next) ==
    [success |-> TRUE, counter |-> next, current |-> current]

\* counter.compare_exchange_weak(current, next): on failure `current` takes the
\* value of the counter (a spurious failure reloads the same value and changes
\* nothing).
compare_exchange_weak(counter, current, next) ==
    IF counter = current
    THEN [success |-> TRUE, counter |-> next, current |-> current]
    ELSE [success |-> FALSE, counter |-> counter, current |-> counter]

\* A clock at 0 that no thread is using; ticks, seen and merged record what the
\* completed calls returned and were given.
LamportThreads ==
    [counter |-> 0,
     pc |-> [th \in Threads |-> "idle"],
     current |-> [th \in Threads |-> 0],
     received_time |-> [th \in Threads |-> 0],
     ticks |-> <<>>,
     seen |-> {},
     merged |-> {},
     calls |-> 0]

\* The coordinator of peer 1 with the default configuration, before anything
\* was done with it.  `updated` holds the time of the last update of each
\* registered peer (-1: none since it was registered), `revived` the peers that
\* were updated again after they had timed out, `performed` the time of the last
\* performCoordinatedGC (0: that of the construction).
CoordinatorOf(config) ==
    [gc |-> GCCoordinatorWith(1, config),
     updated |-> EmptyMap,
     revived |-> {},
     performed |-> 0]
Unconfigured == CoordinatorOf(Config)

(***************************************************************************)
(* The codecs of an atom (network/binary_packer.hpp, vle_encoding.hpp).    *)
(* A uint64_t is its 64 bits, lowest first; a byte of a buffer is a number *)
(* in 0..255; a char is a number in -128..127 where char is signed and in  *)
(* 0..255 where it is not.  Offsets into a buffer count from 0 as in the   *)
(* code.                                                                   *)
(***************************************************************************)
UInt64Bits == 64

\* The uint64_t 2^n - 1 and the uint64_t 2^n.
Ones(n) == [i \in 1..UInt64Bits |-> IF i <= n THEN 1 ELSE 0]
Bit(n) == [i \in 1..UInt64Bits |-> IF i = n + 1 THEN 1 ELSE 0]

\* value != 0
NonZero(value) == \E i \in 1..UInt64Bits : value[i] = 1

\* value >> k
ShiftRight(value, k) ==
    [i \in 1..UInt64Bits |-> IF i + k <= UInt64Bits THEN value[i + k] ELSE 0]

\* value & (2^k - 1), as a number (k <= 8).
RECURSIVE LowBits(_, _)
LowBits(value, k) ==
    IF k = 0 THEN 0 ELSE LowBits(value, k - 1) + value[k] * (2 ^ (k - 1))

\* Bit k of a byte.
ByteBit(byte, k) == (byte \div (2 ^ k)) % 2

\* value | ((uint64_t)bits << shift) for a number bits < 2^8: what is shifted
\* beyond bit 63 is lost.
OrShifted(value, bits, shift) ==
    [i \in 1..UInt64Bits |->
        IF i > shift /\ i <= shift + 8 /\ ByteBit(bits, i - shift - 1) = 1
        THEN 1 ELSE value[i]]

\* (uint8_t)content and (char)byte
ToUInt8(content) == content % 256
ToChar(byte, char_signed) == IF char_signed /\ byte >= 128 THEN byte - 256 ELSE byte

\* The Atom the codecs read and write, and Atom().
PackedAtom(id_client, id_clock, origin_client, origin_clock, content, is_deleted) ==
    [id |-> OpID(id_client, id_clock), origin |-> OpID(origin_client, origin_clock),
     content |-> content, is_deleted |-> is_deleted]
EmptyAtom == PackedAtom(Ones(0), Ones(0), Ones(0), Ones(0), 0, TRUE)

\* BinaryPacker::pack's push_u64 and BinaryPacker::unpack's read_u64
push_u64(buffer, val) ==
    buffer \o [i \in 1..8 |-> LowBits(ShiftRight(val, (i - 1) * 8), 8)]
RECURSIVE read_u64_loop(_, _, _, _)
read_u64_loop(buffer, offset, i, val) ==
    IF i = 8 THEN val
    ELSE read_u64_loop(buffer, offset, i + 1, OrShifted(val, buffer[offset + i + 1], i * 8))
read_u64(buffer, offset) == read_u64_loop(buffer, offset, 0, Ones(0))

\* BinaryPacker::pack
BinaryPacker_pack(atom) ==
    LET b1 == push_u64(<<>>, atom.id.client_id)
        b2 == push_u64(b1, atom.id.clock)
        b3 == push_u64(b2, atom.origin.client_id)
        b4 == push_u64(b3, atom.origin.clock)
    IN  b4 \o <<ToUInt8(atom.content), IF atom.is_deleted THEN 1 ELSE 0>>

\* BinaryPacker::unpack: the value returned and out_atom after the call.
BinaryPacker_unpack(buffer, out_atom, char_signed) ==
    IF Len(buffer) < 34 THEN [ok |-> FALSE, out_atom |-> out_atom]
    ELSE [ok |-> TRUE,
          out_atom |-> PackedAtom(read_u64(buffer, 0), read_u64(buffer, 8),
                                  read_u64(buffer, 16), read_u64(buffer, 24),
                                  ToChar(buffer[33], char_signed), buffer[34] # 0)]

\* VLEEncoding::encodeUInt64
RECURSIVE encodeUInt64(_, _)
encodeUInt64(value, out) ==
    LET low == LowBits(value, 7)
        rest == ShiftRight(value, 7)
    IN  IF NonZero(rest) THEN encodeUInt64(rest, Append(out, low + 128))
        ELSE Append(out, low)

\* A decoder that gives up before the tenth byte.
RECURSIVE decodeUInt64LoopNineBytes(_, _, _, _)
decodeUInt64LoopNineBytes(in, offset, out_value, shift) ==
    IF ~(offset < Len(in)) THEN [ok |-> FALSE, offset |-> offset, out_value |-> out_value]
    ELSE LET byte == in[offset + 1]
             value == OrShifted(out_value, byte % 128, shift)
         IN  IF byte < 128 THEN [ok |-> TRUE, offset |-> offset + 1, out_value |-> value]
             ELSE IF shift + 7 >= 63
                  THEN [ok |-> FALSE, offset |-> offset + 1, out_value |-> value]
                  ELSE decodeUInt64LoopNineBytes(in, offset + 1, value, shift + 7)

\* VLEEncoding::decodeUInt64's loop: the value returned, and offset and
\* out_value after the call.
RECURSIVE decodeUInt64Loop(_, _, _, _)
decodeUInt64Loop(in, offset, out_value, shift) ==
    IF ~(offset < Len(in)) THEN [ok |-> FALSE, offset |-> offset, out_value |-> out_value]
    ELSE LET byte == in[offset + 1]
             value == OrShifted(out_value, byte % 128, shift)
         IN  IF byte < 128 THEN [ok |-> TRUE, offset |-> offset + 1, out_value |-> value]
             ELSE IF shift + 7 >= 64
                  THEN [ok |-> FALSE, offset |-> offset + 1, out_value |-> value]
                  ELSE decodeUInt64Loop(in, offset + 1, value, shift + 7)

\* VLEEncoding::decodeUInt64
decodeUInt64(in, offset) == decodeUInt64Loop(in, offset, Ones(0), 0)

\* VLEEncoding::encodedSize
RECURSIVE encodedSizeLoop(_, _)
encodedSizeLoop(value, bytes) ==
    IF NonZero(value) THEN encodedSizeLoop(ShiftRight(value, 7), bytes + 1) ELSE bytes
encodedSize(value) == IF ~NonZero(value) THEN 1 ELSE encodedSizeLoop(value, 0)

\* VLEPacker::pack
VLEPacker_pack(atom) ==
    LET b1 == encodeUInt64(atom.id.client_id, <<>>)
        b2 == encodeUInt64(atom.id.clock, b1)
        b3 == encodeUInt64(atom.origin.client_id, b2)
        b4 == encodeUInt64(atom.origin.clock, b3)
    IN  b4 \o <<ToUInt8(atom.content), IF atom.is_deleted THEN 1 ELSE 0>>

\* VLEPacker::unpack: the value returned, out_atom after the call and the
\* offset it stopped at.
VLEPacker_unpack(buffer, out_atom, char_signed) ==
    LET d1 == decodeUInt64(buffer, 0)
        a1 == [out_atom EXCEPT !.id.client_id = d1.out_value]
        d2 == decodeUInt64(buffer, d1.offset)
        a2 == [a1 EXCEPT !.id.clock = d2.out_value]
        d3 == decodeUInt64(buffer, d2.offset)
        a3 == [a2 EXCEPT !.origin.client_id = d3.out_value]
        d4 == decodeUInt64(buffer, d3.offset)
        a4 == [a3 EXCEPT !.origin.clock = d4.out_value]
    IN  IF ~d1.ok THEN [ok |-> FALSE, out_atom |-> a1, offset |-> d1.offset]
        ELSE IF ~d2.ok THEN [ok |-> FALSE, out_atom |-> a2, offset |-> d2.offset]
        ELSE IF ~d3.ok THEN [ok |-> FALSE, out_atom |-> a3, offset |-> d3.offset]
        ELSE IF ~d4.ok THEN [ok |-> FALSE, out_atom |-> a4, offset |-> d4.offset]
        ELSE IF d4.offset + 2 > Len(buffer)
             THEN [ok |-> FALSE, out_atom |-> a4, offset |-> d4.offset]
             ELSE [ok |-> TRUE,
                   out_atom |-> [a4 EXCEPT
                       !.content = ToChar(buffer[d4.offset + 1], char_signed),
                       !.is_deleted = (buffer[d4.offset + 2] # 0)],
                   offset |-> d4.offset + 2]

\* VLEPacker::packedSize
packedSize(atom) ==
    encodedSize(atom.id.client_id) + encodedSize(atom.id.clock)
        + encodedSize(atom.origin.client_id) + encodedSize(atom.origin.clock) + 2

\* Nothing packed yet.
Unsent == [stage |-> "none"]

(***************************************************************************)
(* The peers and the network between them (tests/fuzz_test.cpp): every     *)
(* local operation is broadcast as a packet, and every peer applies the    *)
(* packets of the others in an order of its own.  After a snapshot of the  *)
(* vector clocks the peers edit offline and then exchange deltas           *)
(* (tests/delta_sync_test.cpp).                                            *)
(***************************************************************************)
VARIABLES
    seq,    \* seq[p]: the Sequence object of peer p
    net,    \* network_buffer: the packets broadcast so far
    recv,   \* recv[p]: the packets peer p has applied
    nops,   \* local operations performed so far
    snap,   \* snap[p]: getVectorClock() of peer p when the snapshot was taken
    phase,  \* "edit", "snapped" or "exchanged", and the pair that exchanged
    file,   \* the stream written by the last save(), then a failure of load()
    lam,    \* a LamportClock shared by threads, and what its calls returned
    coord,  \* the GCCoordinator of peer 1, and what was done with it and when
    wire    \* an atom handed to a codec, the buffer packed and what unpack made of it

vars == <<seq, net, recv, nops, snap, phase, file, lam, coord, wire>>

\* fuzz_test.cpp's Packet for an insert and for a delete.
InsertPacket(p, atom) ==
    [from_user |-> p, atom |-> atom, is_delete |-> FALSE, delete_target |-> OpID(0, 0)]
DeletePacket(p, target) ==
    [from_user |-> p, atom |-> DefaultAtom, is_delete |-> TRUE, delete_target |-> target]

Editing == [step |-> "edit", a |-> 0, b |-> 0]

\* Every peer is constructed with the default configuration.
Init ==
    /\ seq = [p \in Peers |-> Sequence(p)]
    /\ net = {}
    /\ recv = [p \in Peers |-> {}]
    /\ nops = 0
    /\ snap = [p \in Peers |-> NewVectorClock(p)]
    /\ phase = Editing
    /\ file = <<>>
    /\ lam = LamportThreads
    /\ coord = Unconfigured
    /\ wire = Unsent

\* random_op's insert branch: peer p inserts at a visible index (one past the end
\* included) and broadcasts the atom.
LocalInsert(p) ==
    /\ nops < MaxOps
    /\ phase.step # "exchanged"
    /\ \E literal_index \in 0..(Len(toString(seq[p])) + 1) :
          LET content == CharOf(nops + 1)
          IN  /\ seq' = [seq EXCEPT ![p] = localInsert(@, literal_index, content)]
              /\ net' = net \cup {InsertPacket(p, localInsertAtom(seq[p], literal_index, content))}
    /\ nops' = nops + 1
    /\ UNCHANGED <<recv, snap, phase, file, lam, coord, wire>>

\* random_op's delete branch: peer p deletes at a visible index (one past the end
\* included) and broadcasts the target unless localDelete returned {0,0}.
LocalDelete(p) ==
    /\ nops < MaxOps
    /\ phase.step # "exchanged"
    /\ \E literal_index \in 0..Len(toString(seq[p])) :
          \E target \in localDeleteReturns(seq[p], literal_index) :
              /\ seq' = [seq EXCEPT ![p] = localDelete(@, literal_index)]
              /\ net' = IF target.clock # 0 THEN net \cup {DeletePacket(p, target)} ELSE net
    /\ nops' = nops + 1
    /\ UNCHANGED <<recv, snap, phase, file, lam, coord, wire>>

\* The sync loop: peer p applies a packet of another peer that it has not applied.
Deliver(p) ==
    /\ phase.step = "edit"
    /\ \E packet \in net \ recv[p] :
          /\ packet.from_user # p
          /\ seq' = [seq EXCEPT ![p] = IF packet.is_delete
                                       THEN remoteDelete(@, packet.delete_target)
                                       ELSE remoteMerge(@, packet.atom)]
          /\ recv' = [recv EXCEPT ![p] = @ \cup {packet}]
    /\ UNCHANGED <<net, nops, snap, phase, file, lam, coord, wire>>

Next ==
    \E p \in Peers : LocalInsert(p) \/ LocalDelete(p) \/ Deliver(p)

Spec == Init /\ [][Next]_vars

\* Peer p has applied every packet the other peers broadcast.
Synced(p) == \A packet \in net : packet.from_user # p => packet \in recv[p]

(***************************************************************************)
(* Delta sync (delta_sync_test.cpp): when the peers hold the same          *)
(* operations their vector clocks are recorded; they then edit without     *)
(* delivering, and two of them exchange the deltas computed against the    *)
(* recorded clocks.                                                        *)
(***************************************************************************)
Snapshot ==
    /\ phase.step = "edit"
    /\ \A p \in Peers : Synced(p)
    /\ snap' = [p \in Peers |-> seq[p].vector_clock]
    /\ phase' = [phase EXCEPT !.step = "snapped"]
    /\ UNCHANGED <<seq, net, recv, nops, file, lam, coord, wire>>

ExchangeDeltas(a, b) ==
    /\ phase.step = "snapped"
    /\ a # b
    /\ LET a_delta == getDelta(seq[a], snap[b])
           b_delta == getDelta(seq[b], snap[a])
       IN  seq' = [seq EXCEPT ![b] = applyDelta(@, a_delta),
                              ![a] = applyDelta(@, b_delta)]
    /\ phase' = [step |-> "exchanged", a |-> a, b |-> b]
    /\ UNCHANGED <<net, recv, nops, snap, file, lam, coord, wire>>

NextDelta ==
    \/ Next
    \/ Snapshot
    \/ \E a, b \in Peers : ExchangeDeltas(a, b)

SpecDelta == Init /\ [][NextDelta]_vars

(***************************************************************************)
(* Configured peers (gc_test.cpp, stability_test.cpp): before it edits, a  *)
(* peer may be given a garbage-collection configuration and an orphan      *)
(* buffer configuration.                                                   *)
(***************************************************************************)
SmallTombstoneThreshold == 1
SmallMinAge == 0
SmallOrphanBuffer == 1

GCConfigs ==
    {GCConfig,
     [auto_gc_enabled |-> TRUE,
      tombstone_threshold |-> SmallTombstoneThreshold,
      min_age_threshold |-> SmallMinAge]}

OrphanConfigs ==
    {OrphanConfig,
     [max_orphan_buffer_size |-> SmallOrphanBuffer,
      max_orphan_age |-> DefaultMaxOrphanAge]}

\* setGCConfig / setOrphanConfig on a freshly constructed peer.
Configure(p) ==
    /\ nops = 0
    /\ seq[p].gc_config = GCConfig
    /\ seq[p].orphan_config = OrphanConfig
    /\ \E gc \in GCConfigs, oc \in OrphanConfigs :
          /\ <<gc, oc>> # <<GCConfig, OrphanConfig>>
          /\ seq' = [seq EXCEPT ![p] = setOrphanConfig(setGCConfig(@, gc), oc)]
    /\ UNCHANGED <<net, recv, nops, snap, phase, file, lam, coord, wire>>

NextCfg ==
    \/ Next
    \/ \E p \in Peers : Configure(p)

SpecCfg == Init /\ [][NextCfg]_vars

(***************************************************************************)
(* Frontier garbage collection (gc_test.cpp): a peer collects against a    *)
(* frontier that claims nothing, against a peer's vector clock, or against *)
(* the minimum of all the peers' vector clocks.                            *)
(***************************************************************************)
MaxGCRuns == 1

Frontiers ==
    {NewVectorClock(q) : q \in Peers}
        \cup {seq[q].vector_clock : q \in Peers}
        \cup {computeMinimum({seq[q].vector_clock : q \in Peers})}

GarbageCollect(p) ==
    /\ phase.step = "edit"
    /\ seq[p].gc_stats_.total_gc_runs < MaxGCRuns
    /\ \E stable_frontier \in Frontiers :
          seq' = [seq EXCEPT ![p] = garbageCollect(@, stable_frontier)]
    /\ UNCHANGED <<net, recv, nops, snap, phase, file, lam, coord, wire>>

\* The ages garbageCollectLocal is called with: none, and one that spares the
\* latest tombstones.
MinAges == {SmallMinAge, MaxOps}

\* gc_test.cpp, test_single_user_gc: a peer collects by local age.
GarbageCollectLocal(p) ==
    /\ phase.step = "edit"
    /\ seq[p].gc_stats_.total_gc_runs < MaxGCRuns
    /\ \E min_age_threshold \in MinAges :
          seq' = [seq EXCEPT ![p] = garbageCollectLocal(@, min_age_threshold)]
    /\ UNCHANGED <<net, recv, nops, snap, phase, file, lam, coord, wire>>

NextGC ==
    \/ Next
    \/ \E p \in Peers : GarbageCollect(p)
    \/ \E p \in Peers : GarbageCollectLocal(p)

SpecGC == Init /\ [][NextGC]_vars

(***************************************************************************)
(* Threads on one LamportClock.                                            *)
(***************************************************************************)
\* peek()
Peek(th) ==
    /\ lam.pc[th] = "idle"
    /\ lam' = [lam EXCEPT !.seen = @ \cup {lam.counter}]
    /\ UNCHANGED <<seq, net, recv, nops, snap, phase, file, coord, wire>>

\* tick(): ++counter, one atomic step.
Tick(th) ==
    /\ lam.pc[th] = "idle"
    /\ lam.counter < MaxCounter
    /\ LET value == LamportTick(lam.counter)
       IN  lam' = [lam EXCEPT !.counter = value,
                              !.ticks = Append(@, value),
                              !.seen = @ \cup {value},
                              !.calls = @ + 1]
    /\ UNCHANGED <<seq, net, recv, nops, snap, phase, file, coord, wire>>

\* merge(received_time): uint64_t current = counter.load()
MergeLoad(th) ==
    /\ lam.pc[th] = "idle"
    /\ lam.counter < MaxCounter
    /\ \E received_time \in 0..(MaxCounter - 1) :
          lam' = [lam EXCEPT !.pc[th] = "cas",
                             !.current[th] = lam.counter,
                             !.received_time[th] = received_time]
    /\ UNCHANGED <<seq, net, recv, nops, snap, phase, file, coord, wire>>

\* merge(received_time): one turn of the compare-and-swap loop.
MergeCAS(th) ==
    /\ lam.pc[th] = "cas"
    /\ LET next == LamportMerge(lam.current[th], lam.received_time[th])
           r == compare_exchange_weak(lam.counter, lam.current[th], next)
       IN  lam' = IF r.success
                  THEN [lam EXCEPT !.counter = r.counter,
                                   !.pc[th] = "idle",
                                   !.merged = @ \cup {lam.received_time[th]},
                                   !.calls = @ + 1]
                  ELSE [lam EXCEPT !.current[th] = r.current]
    /\ UNCHANGED <<seq, net, recv, nops, snap, phase, file, coord, wire>>

NextLamport ==
    \E th \in Threads : Peek(th) \/ Tick(th) \/ MergeLoad(th) \/ MergeCAS(th)

SpecLamport == Init /\ [][NextLamport]_vars

(***************************************************************************)
(* Persistence (save_load_test.cpp): a peer saves its document, and a peer *)
(* loads the saved stream over its own document.                           *)
(***************************************************************************)
Save(p) ==
    /\ phase.step = "edit"
    /\ file' = <<save(seq[p])>>
    /\ UNCHANGED <<seq, net, recv, nops, snap, phase, lam, coord, wire>>

\* The streams that differ from a saved one in the magic or in the version byte.
Damaged(stream) ==
    {[stream EXCEPT !.magic = "OMNJ"], [stream EXCEPT !.ver = 3]}

\* The saved stream is replaced by one that is not an OmniSync document.
Damage ==
    /\ phase.step = "edit"
    /\ Len(file) = 1
    /\ loadResult(file[1])
    /\ \E stream \in Damaged(file[1]) : file' = <<stream>>
    /\ UNCHANGED <<seq, net, recv, nops, snap, phase, lam, coord, wire>>

\* doc.load(infile); a failure it returned is kept behind the stream.
Load(p) ==
    /\ phase.step = "edit"
    /\ nops < MaxOps
    /\ Len(file) >= 1
    /\ seq' = [seq EXCEPT ![p] = load(@, file[1])]
    /\ file' = IF loadResult(file[1]) THEN file ELSE <<file[1], FALSE>>
    /\ nops' = nops + 1
    /\ UNCHANGED <<net, recv, snap, phase, lam, coord, wire>>

NextLoad ==
    \/ Next
    \/ \E p \in Peers : Save(p) \/ Load(p)

SpecLoad == Init /\ [][NextLoad]_vars

(***************************************************************************)
(* Coordinated garbage collection (gc_coord_test.cpp): a peer hands its    *)
(* coordinator its own vector clock and the vector clocks its peers        *)
(* report, some of which may time out, and collects against the stable     *)
(* frontier of the coordinator.                                            *)
(***************************************************************************)
\* Registers the peers of `others`, as the test does after construction.
RECURSIVE registerPeers(_, _)
registerPeers(c, others) ==
    IF others = {} THEN c
    ELSE LET id == CHOOSE x \in others : \A y \in others : x <= y
         IN  registerPeers(registerPeer(c, id), others \ {id})

\* Hands the coordinator the current vector clock of every peer of `heard`.
RECURSIVE updatePeerStates(_, _)
updatePeerStates(c, heard) ==
    IF heard = {} THEN c
    ELSE LET id == CHOOSE x \in heard : \A y \in heard : x <= y
         IN  updatePeerStates(updatePeerState(c, id, seq[id].vector_clock), heard \ {id})

\* The coordinator of p as the tests build it: constructed, the other peers
\* registered, p's own clock handed over; the peers of `heard` report their
\* clocks, those of `expired` first and peer_timeout_ms before the others.
Coordinated(p, heard, expired) ==
    LET c0 == updateMyVectorClock(registerPeers(GCCoordinator(p), Peers \ {p}),
                                  seq[p].vector_clock)
        c1 == updatePeerStates(c0, heard \cap expired)
        c2 == sleep_for(c1, c1.config_.peer_timeout_ms)
    IN  updatePeerStates(c2, heard \ expired)

\* gc_coord_test.cpp, test_coordinated_gc: the coordinator of p is brought up to
\* date and p collects against its stable frontier.
CoordinatedGC(p) ==
    /\ phase.step = "edit"
    /\ seq[p].gc_stats_.total_gc_runs < MaxGCRuns
    /\ \E heard \in SUBSET (Peers \ {p}) : \E expired \in SUBSET heard :
          seq' = [seq EXCEPT ![p] = performCoordinatedGC(Coordinated(p, heard, expired), @)]
    /\ UNCHANGED <<net, recv, nops, snap, phase, file, lam, coord, wire>>

NextCoord ==
    \/ Next
    \/ \E p \in Peers : CoordinatedGC(p)

SpecCoord == Init /\ [][NextCoord]_vars

\* A peer loads a stream that is not an OmniSync document.
LoadDamaged(p) ==
    /\ Len(file) >= 1
    /\ ~loadResult(file[1])
    /\ Load(p)

NextDamaged ==
    \/ Next
    \/ \E p \in Peers : Save(p) \/ LoadDamaged(p)
    \/ Damage

SpecDamaged == Init /\ [][NextDamaged]_vars

(***************************************************************************)
(* The coordinator of peer 1 over time (gc_coord_test.cpp,                 *)
(* test_peer_management, test_auto_gc_trigger and test_peer_timeout): it   *)
(* is constructed with a configuration, peers are registered, report their *)
(* clocks and are removed, time passes, and the document is collected.     *)
(***************************************************************************)
MaxTime == 3
SmallPeerTimeoutMs == 2
SmallGCIntervalMs == 2
MaxCoordGCRuns == 2

\* The peers the coordinator of peer 1 hears of.
CoordPeerIds == 2..(NumPeers + 1)

\* The configurations of the tests: short timeout and interval, automatic GC
\* on or off, one or two peers required.
CoordinatorConfigs ==
    {[Config EXCEPT !.peer_timeout_ms = SmallPeerTimeoutMs,
                    !.gc_interval_ms = SmallGCIntervalMs,
                    !.auto_gc_enabled = enabled,
                    !.min_peers_for_gc = min_peers] :
        enabled \in BOOLEAN, min_peers \in 1..2}

\* The clocks peer id reports: entries for peer 1 and for itself.
HeartbeatClocks(id) ==
    {[k \in {1, id} |-> IF k = id THEN own ELSE other] : own \in 0..1, other \in 0..1}

\* The clocks of peer 1 that the coordinator is handed.
MyClocks == {[k \in 1..(NumPeers + 1) |-> time] : time \in 0..1}

\* GCCoordinator gc_coord(1, config)
ConfigureCoordinator ==
    /\ coord = Unconfigured
    /\ \E config \in CoordinatorConfigs : coord' = CoordinatorOf(config)
    /\ UNCHANGED <<seq, net, recv, nops, snap, phase, file, lam, wire>>

\* gc_coord.registerPeer(id)
RegisterPeer(id) ==
    /\ coord # Unconfigured
    /\ coord' = [coord EXCEPT !.gc = registerPeer(@, id),
                              !.updated = IF id \in DOMAIN @ THEN @ ELSE MapPut(@, id, -1)]
    /\ UNCHANGED <<seq, net, recv, nops, snap, phase, file, lam, wire>>

\* What an update of peer id at this moment leaves in coord.
Updated(id, gc) ==
    [coord EXCEPT !.gc = gc,
                  !.updated = MapPut(@, id, coord.gc.now),
                  !.revived = IF /\ id \in DOMAIN coord.updated
                                 /\ coord.updated[id] >= 0
                                 /\ id \notin getActivePeers(coord.gc)
                              THEN @ \cup {id} ELSE @]

\* gc_coord.updatePeerState(id, vc)
UpdatePeerState(id) ==
    /\ coord # Unconfigured
    /\ \E vc \in HeartbeatClocks(id) : coord' = Updated(id, updatePeerState(coord.gc, id, vc))
    /\ UNCHANGED <<seq, net, recv, nops, snap, phase, file, lam, wire>>

\* gc_coord.processHeartbeat(id, vc)
ProcessHeartbeat(id) ==
    /\ coord # Unconfigured
    /\ \E vc \in HeartbeatClocks(id) : coord' = Updated(id, processHeartbeat(coord.gc, id, vc))
    /\ UNCHANGED <<seq, net, recv, nops, snap, phase, file, lam, wire>>

\* gc_coord.removePeer(id)
RemovePeer(id) ==
    /\ coord # Unconfigured
    /\ id \in DOMAIN coord.gc.peers_
    /\ coord' = [coord EXCEPT !.gc = removePeer(@, id),
                              !.updated = MapErase(@, id),
                              !.revived = @ \ {id}]
    /\ UNCHANGED <<seq, net, recv, nops, snap, phase, file, lam, wire>>

\* gc_coord.updateMyVectorClock(vc)
UpdateMyVectorClock ==
    /\ coord # Unconfigured
    /\ \E vc \in MyClocks : coord' = [coord EXCEPT !.gc = updateMyVectorClock(@, vc)]
    /\ UNCHANGED <<seq, net, recv, nops, snap, phase, file, lam, wire>>

\* std::this_thread::sleep_for: a millisecond passes.
Sleep ==
    /\ coord # Unconfigured
    /\ coord.gc.now < MaxTime
    /\ coord' = [coord EXCEPT !.gc = sleep_for(@, 1)]
    /\ UNCHANGED <<seq, net, recv, nops, snap, phase, file, lam, wire>>

\* gc_coord.performCoordinatedGC(doc) on the document of peer 1.
PerformCoordinatedGC ==
    /\ coord # Unconfigured
    /\ seq[1].gc_stats_.total_gc_runs < MaxCoordGCRuns
    /\ seq' = [seq EXCEPT ![1] = performCoordinatedGC(coord.gc, @)]
    /\ coord' = [coord EXCEPT !.gc = performCoordinatedGCCoordinator(@),
                              !.performed = coord.gc.now]
    /\ UNCHANGED <<net, recv, nops, snap, phase, file, lam, wire>>

NextPeers ==
    \/ ConfigureCoordinator
    \/ \E id \in CoordPeerIds :
          RegisterPeer(id) \/ UpdatePeerState(id) \/ ProcessHeartbeat(id) \/ RemovePeer(id)
    \/ UpdateMyVectorClock
    \/ Sleep
    \/ PerformCoordinatedGC

SpecPeers == Init /\ [][NextPeers]_vars

(***************************************************************************)
(* An atom through a codec (tests/vle_compression_test.cpp): the atom is   *)
(* packed, and the buffer is unpacked into a default-constructed Atom.     *)
(* The ids and clocks are taken around the byte counts of the variable     *)
(* length encoding (1, 2, 3, 9 and 10 bytes), the contents around the sign *)
(* of char.                                                                *)
(***************************************************************************)
PackedClientIds == {Ones(0), Ones(7), Bit(7), Bit(63), Ones(64)}
PackedClocks == {Ones(1), Bit(14), Ones(63), Ones(64)}
PackedContents(char_signed) == IF char_signed THEN {65, -1, -128} ELSE {65, 255, 128}
PackedAtoms(char_signed) ==
    {PackedAtom(id_client, id_clock, origin_client, origin_clock, content, is_deleted) :
        id_client \in PackedClientIds, id_clock \in PackedClocks,
        origin_client \in PackedClientIds, origin_clock \in PackedClocks,
        content \in PackedContents(char_signed), is_deleted \in BOOLEAN}

\* auto packed = BinaryPacker::pack(atom), on a build with signed or unsigned char
BinaryPack ==
    /\ wire = Unsent
    /\ \E char_signed \in BOOLEAN : \E atom \in PackedAtoms(char_signed) :
           wire' = [stage |-> "packed", packer |-> "BinaryPacker",
                    char_signed |-> char_signed, atom |-> atom,
                    buffer |-> BinaryPacker_pack(atom)]
    /\ UNCHANGED <<seq, net, recv, nops, snap, phase, file, lam, coord>>

\* auto packed = VLEPacker::pack(atom)
VLEPack ==
    /\ wire = Unsent
    /\ \E char_signed \in BOOLEAN : \E atom \in PackedAtoms(char_signed) :
           wire' = [stage |-> "packed", packer |-> "VLEPacker",
                    char_signed |-> char_signed, atom |-> atom,
                    buffer |-> VLEPacker_pack(atom)]
    /\ UNCHANGED <<seq, net, recv, nops, snap, phase, file, lam, coord>>

\* Atom unpacked; bool success = BinaryPacker::unpack(packed, unpacked)
BinaryUnpack ==
    /\ wire.stage = "packed" /\ wire.packer = "BinaryPacker"
    /\ wire' = [stage |-> "unpacked", packer |-> wire.packer,
                char_signed |-> wire.char_signed, atom |-> wire.atom,
                buffer |-> wire.buffer,
                unpacked |-> BinaryPacker_unpack(wire.buffer, EmptyAtom, wire.char_signed)]
    /\ UNCHANGED <<seq, net, recv, nops, snap, phase, file, lam, coord>>

\* Atom unpacked; bool success = VLEPacker::unpack(packed, unpacked)
VLEUnpack ==
    /\ wire.stage = "packed" /\ wire.packer = "VLEPacker"
    /\ wire' = [stage |-> "unpacked", packer |-> wire.packer,
                char_signed |-> wire.char_signed, atom |-> wire.atom,
                buffer |-> wire.buffer,
                unpacked |-> VLEPacker_unpack(wire.buffer, EmptyAtom, wire.char_signed)]
    /\ UNCHANGED <<seq, net, recv, nops, snap, phase, file, lam, coord>>

NextCodec == BinaryPack \/ VLEPack \/ BinaryUnpack \/ VLEUnpack

SpecCodec == Init /\ [][NextCodec]_vars

(***************************************************************************)
(* A transport that delivers at least once (examples/p2p_chat.cpp reads    *)
(* whatever datagrams arrive): a peer is handed again a packet it has      *)
(* applied before.  The peers also collect garbage, so a packet may come   *)
(* back after the atom it carries was removed.  A repeated delivery counts *)
(* as an operation.                                                        *)
(***************************************************************************)
Redeliver(p) ==
    /\ phase.step = "edit"
    /\ nops < MaxOps
    /\ \E packet \in recv[p] :
          seq' = [seq EXCEPT ![p] = IF packet.is_delete
                                    THEN remoteDelete(@, packet.delete_target)
                                    ELSE remoteMerge(@, packet.atom)]
    /\ nops' = nops + 1
    /\ UNCHANGED <<net, recv, snap, phase, file, lam, coord, wire>>

NextRedeliver ==
    \/ NextGC
    \/ \E p \in Peers : Redeliver(p)

SpecRedeliver == Init /\ [][NextRedeliver]_vars

(***************************************************************************)
(* The orphan buffer at its bound (remoteMerge's orphan branch): peer 1 is  *)
(* given a bound and is handed atoms of a peer outside the session whose   *)
(* origins never arrive, oldest first or newest first, under one or two    *)
(* parents; then further orphans arrive, older or newer than all of them.  *)
(***************************************************************************)
LargeOrphanBuffer == 20
MaxOrphanArrivals == 2
OrphanBounds == {SmallOrphanBuffer, SmallOrphanBuffer + 1, LargeOrphanBuffer}
ForeignPeer == NumPeers + 1

\* An atom of the foreign peer whose origin is one of `parents` absent atoms.
OrphanAtom(clock, parents) ==
    Atom(OpID(ForeignPeer, clock), OpID(ForeignPeer, 100 + (clock % parents)), CharOf(1))

\* n orphans with the clocks 2..n+1 in the order they arrive.
Arrivals(n, ascending, parents) ==
    [i \in 1..n |-> OrphanAtom(IF ascending THEN i + 1 ELSE n + 2 - i, parents)]

\* The orphans that may arrive next at s: older than all that came before, or
\* newer than all the vector clock has seen.
NextOrphans(s) ==
    {OrphanAtom(clock, parents) :
        clock \in {1, VCGet(s.vector_clock, ForeignPeer) + 1}, parents \in 1..2}

InitOrphans ==
    /\ \E bound \in OrphanBounds : \E n \in 0..bound :
       \E ascending \in BOOLEAN : \E parents \in 1..2 :
           seq = [p \in Peers |->
                     IF p = 1
                     THEN MergeChildren(
                              setOrphanConfig(Sequence(p),
                                  [max_orphan_buffer_size |-> bound,
                                   max_orphan_age |-> DefaultMaxOrphanAge]),
                              Arrivals(n, ascending, parents))
                     ELSE Sequence(p)]
    /\ net = {}
    /\ recv = [p \in Peers |-> {}]
    /\ nops = 0
    /\ snap = [p \in Peers |-> NewVectorClock(p)]
    /\ phase = Editing
    /\ file = <<>>
    /\ lam = LamportThreads
    /\ coord = Unconfigured
    /\ wire = Unsent

\* doc.remoteMerge(orphan) at peer 1.
HandOrphan ==
    /\ nops < MaxOrphanArrivals
    /\ \E new_atom \in NextOrphans(seq[1]) :
          seq' = [seq EXCEPT ![1] = remoteMerge(@, new_atom)]
    /\ nops' = nops + 1
    /\ UNCHANGED <<net, recv, snap, phase, file, lam, coord, wire>>

SpecOrphans == InitOrphans /\ [][HandOrphan]_vars

(***************************************************************************)
(* Datagrams from anywhere (examples/p2p_chat.cpp): whatever unpacks is    *)
(* applied, remoteDelete(id) when the atom's flag is set and remoteMerge   *)
(* otherwise.  The ids are those of the start node, which is also the id   *)
(* of a default-constructed Atom, and of an atom of a peer outside the     *)
(* session.  Each datagram counts as an operation.                         *)
(***************************************************************************)
ForeignIds == {start_id, OpID(ForeignPeer, 1)}
ForeignAtoms == {Atom(id, start_id, CharOf(1)) : id \in ForeignIds}

\* doc.remoteDelete(received_atom.id)
RemoteDeleteAny(p) ==
    /\ phase.step = "edit"
    /\ nops < MaxOps
    /\ \E target_id \in ForeignIds : seq' = [seq EXCEPT ![p] = remoteDelete(@, target_id)]
    /\ nops' = nops + 1
    /\ UNCHANGED <<net, recv, snap, phase, file, lam, coord, wire>>

\* doc.remoteMerge(received_atom)
RemoteMergeAny(p) ==
    /\ phase.step = "edit"
    /\ nops < MaxOps
    /\ \E new_atom \in ForeignAtoms : seq' = [seq EXCEPT ![p] = remoteMerge(@, new_atom)]
    /\ nops' = nops + 1
    /\ UNCHANGED <<net, recv, snap, phase, file, lam, coord, wire>>

NextDatagrams ==
    \/ NextGC
    \/ \E p \in Peers : RemoteDeleteAny(p) \/ RemoteMergeAny(p)

SpecDatagrams == Init /\ [][NextDatagrams]_vars

(***************************************************************************)
(* C1. Convergence: once every peer has applied every atom and every       *)
(* delete of the other peers, in whatever order each received them,        *)
(* toString() is the same on all peers (runs without garbage collection    *)
(* and without orphan eviction).                                           *)
(***************************************************************************)
C1_Convergence ==
    (\A p \in Peers : Synced(p)) =>
        \A p, q \in Peers : toString(seq[p]) = toString(seq[q])

\* All peers are synced after concurrent inserts under one origin by two peers
\* and a delete, with text left to compare.
C1_Witness ==
    /\ \A p \in Peers : Synced(p) /\ recv[p] # {}
    /\ \E m1, m2 \in net : /\ ~m1.is_delete /\ ~m2.is_delete
                           /\ m1.from_user # m2.from_user
                           /\ m1.atom.origin = m2.atom.origin
    /\ \E m \in net : m.is_delete
    /\ Len(toString(seq[1])) >= 2

(***************************************************************************)
(* C2. localInsert(i, c) with 0 <= i <= |T| on a peer whose visible text   *)
(* is T leaves toString() = T[0..i) + c + T[i..).                          *)
(***************************************************************************)
C2_InsertAtVisibleIndex ==
    \A p \in Peers :
        LET T == toString(seq[p])
            c == CharOf(nops + 1)
        IN  \A i \in 0..Len(T) :
                toString(localInsert(seq[p], i, c)) =
                    SubSeq(T, 1, i) \o <<c>> \o SubSeq(T, i + 1, Len(T))

(***************************************************************************)
(* C3. Delta sync converges: two peers that held the same operations when  *)
(* their vector clocks were recorded, and that edited locally since, read  *)
(* the same text after exchanging the deltas against the recorded clocks.  *)
(***************************************************************************)
C3_DeltaSyncConverges ==
    phase.step = "exchanged" =>
        toString(seq[phase.a]) = toString(seq[phase.b])

(***************************************************************************)
(* C4. Delta correctness: a receiver whose vector clock is V has, after    *)
(* applyDelta(sender.getDelta(V)), a vector clock equal entry by entry     *)
(* (missing entries read 0) to the sender's, also when the sender has     *)
(* deleted.  Stated for a sender that holds a tombstone and a receiver     *)
(* whose clock the sender's clock dominates (no other receiver could end   *)
(* with the sender's clock).                                               *)
(***************************************************************************)
VCEqual(v, w) == \A k \in DOMAIN v \cup DOMAIN w : VCGet(v, k) = VCGet(w, k)
VCDominates(v, w) == \A k \in DOMAIN v \cup DOMAIN w : VCGet(v, k) >= VCGet(w, k)

C4_DeltaReachesSenderClock ==
    \A a, b \in Peers :
        (a # b /\ phase.step # "exchanged"
              /\ seq[a].tombstone_count > 0
              /\ VCDominates(seq[a].vector_clock, seq[b].vector_clock)) =>
            LET V == seq[b].vector_clock
                after == applyDelta(seq[b], getDelta(seq[a], V))
            IN  VCEqual(after.vector_clock, seq[a].vector_clock)

(***************************************************************************)
(* C5. Delta completeness: A.getDelta(V_B), V_B being B's current vector   *)
(* clock, holds every non-sentinel atom of A's sequence that B has not     *)
(* received and no atom that B has received, whatever the order of the     *)
(* earlier deliveries to B.                                                *)
(***************************************************************************)
\* Peer b created the atom with this id or was handed it through remoteMerge.
HasReceived(b, id) ==
    \/ id.client_id = b
    \/ \E packet \in recv[b] : ~packet.is_delete /\ packet.atom.id = id

C5_DeltaIsWhatPeerLacks ==
    \A a, b \in Peers :
        (a # b /\ phase.step # "exchanged") =>
            LET delta == getDelta(seq[a], seq[b].vector_clock)
                InDelta(id) == \E j \in 1..Len(delta) : delta[j].id = id
            IN  /\ \A i \in 2..Len(seq[a].atoms) :
                      ~HasReceived(b, seq[a].atoms[i].id) => InDelta(seq[a].atoms[i].id)
                /\ \A j \in 1..Len(delta) : ~HasReceived(b, delta[j].id)

(***************************************************************************)
(* Helpers of the claims about merges and deletes.                         *)
(***************************************************************************)
\* The list positions of the tombstones of s.
Tombstones(s) == {i \in 2..Len(s.atoms) : s.atoms[i].is_deleted}

\* The byte c is part of the visible text of s.
Shows(s, c) == \E i \in 1..Len(toString(s)) : toString(s)[i] = c

\* The atoms peer p was handed through remoteMerge.
MergedAt(p) == {m \in recv[p] : ~m.is_delete}

\* No garbage collection has run on peer p.
NoGC(p) == seq[p].gc_stats_.total_gc_runs = 0

\* Peer p was handed no more atoms than its orphan buffer holds, so that
\* remoteMerge never found the buffer at its bound.
NoEviction(p) == Cardinality(MergedAt(p)) <= seq[p].orphan_config.max_orphan_buffer_size

\* X went through remoteMerge and X.id through remoteDelete on p, and X's
\* origin is indexed: X is a tombstone of the sequence, invisible, counted once,
\* and no longer awaited by a delete.
DeleteApplied(p, X) ==
    LET s == seq[p]
    IN  /\ X.id \in s.atom_index
        /\ \E i \in 2..Len(s.atoms) : s.atoms[i].id = X.id /\ s.atoms[i].is_deleted
        /\ ~Shows(s, X.content)
        /\ s.tombstone_count = Cardinality(Tombstones(s))
        /\ X.id \notin s.pending_deletes

\* Peer p has applied both remoteMerge(X) and remoteDelete(X.id), and X's origin
\* is present.
BothApplied(p, X) ==
    /\ \E m \in MergedAt(p) : m.atom = X
    /\ \E d \in recv[p] : d.is_delete /\ d.delete_target = X.id
    /\ X.origin \in seq[p].atom_index

AtomsOnNet == {m.atom : m \in {k \in net : ~k.is_delete}}

C8_MergeIdempotent ==
    \A p \in Peers : \A A \in AtomsOnNet :
        LET once == remoteMerge(seq[p], A)
            twice == remoteMerge(once, A)
        IN  /\ twice.atoms = once.atoms
            /\ twice.atom_index = once.atom_index
            /\ twice.pending_orphans = once.pending_orphans
            /\ twice.total_orphan_count = once.total_orphan_count
            /\ twice.tombstone_count = once.tombstone_count

(***************************************************************************)
(* C7. Orphan draining: an atom merged while its origin is absent is held  *)
(* in the orphan buffer and is not in the sequence; when the origin is     *)
(* merged, every atom buffered under it, and every chain buffered under    *)
(* those, is moved into the sequence, and no orphan whose origin is        *)
(* indexed is left in the buffer when remoteMerge returns.                 *)
(***************************************************************************)
\* The atoms buffered under id and, transitively, under them.
RECURSIVE Descendants(_, _)
Descendants(po, id) ==
    IF id \notin DOMAIN po THEN {}
    ELSE LET kids == {po[id][i] : i \in 1..Len(po[id])}
         IN  kids \cup UNION {Descendants(po, k.id) : k \in kids}

Buffered(s, A) ==
    /\ A.origin \in DOMAIN s.pending_orphans
    /\ \E i \in 1..Len(s.pending_orphans[A.origin]) : s.pending_orphans[A.origin][i] = A

\* What remoteMerge(A) did to a peer that went from s to t.
MergeDrains(s, t, A) ==
    /\ (A.id \notin s.atom_index /\ A.origin \notin s.atom_index) =>
           (A.id \notin t.atom_index /\ Buffered(t, A))
    /\ (A.id \notin s.atom_index /\ A.origin \in s.atom_index) =>
           \A D \in Descendants(s.pending_orphans, A.id) :
               D.id \in t.atom_index /\ ~Buffered(t, D)
    /\ \A k \in DOMAIN t.pending_orphans : k \notin t.atom_index

Commute(ab, ba) == ab.atoms = ba.atoms /\ toString(ab) = toString(ba)

\* Neither order ran a garbage collection from s, and the orphan buffer of s
\* has room for both atoms.
Quiet(s, ab, ba) ==
    /\ s.total_orphan_count + 1 < s.orphan_config.max_orphan_buffer_size
    /\ ab.gc_stats_ = s.gc_stats_
    /\ ba.gc_stats_ = s.gc_stats_

\* The two atoms in one order each (the claim is symmetric in A and B).
AtomPairs == {pair \in AtomsOnNet \X AtomsOnNet : OpLess(pair[1].id, pair[2].id)}

C9_MergeCommutes ==
    \A p \in Peers : \A pair \in AtomPairs :
        LET ab == remoteMerge(remoteMerge(seq[p], pair[1]), pair[2])
            ba == remoteMerge(remoteMerge(seq[p], pair[2]), pair[1])
        IN  Commute(ab, ba)

\* C9 as amended: the same when neither order triggers a garbage collection or
\* an orphan eviction.
C9_MergeCommutesQuiet ==
    \A p \in Peers : \A pair \in AtomPairs :
        LET ab == remoteMerge(remoteMerge(seq[p], pair[1]), pair[2])
            ba == remoteMerge(remoteMerge(seq[p], pair[2]), pair[1])
        IN  Quiet(seq[p], ab, ba) => Commute(ab, ba)

\* A peer that holds a tombstone and has run no garbage collection lacks both
\* A and its child B, atoms of another peer, and merging them in either order
\* is quiet.
C9_Witness ==
    \E p \in Peers : \E A, B \in AtomsOnNet :
        /\ B.origin = A.id
        /\ A.id.client_id # p
        /\ A.id \notin seq[p].atom_index /\ B.id \notin seq[p].atom_index
        /\ ~Buffered(seq[p], B)
        /\ A.origin \in seq[p].atom_index
        /\ seq[p].tombstone_count > 0 /\ NoGC(p)
        /\ LET ab == remoteMerge(remoteMerge(seq[p], A), B)
               ba == remoteMerge(remoteMerge(seq[p], B), A)
           IN  Quiet(seq[p], ab, ba) /\ B.id \in ba.atom_index

(***************************************************************************)
(* C10. Frontier GC: garbageCollect(F) removes exactly the atoms that are  *)
(* not the sentinel, are tombstones and have id.clock <= F.get(id.peer),   *)
(* and returns their number; visible atoms, the sentinel and tombstones    *)
(* beyond the frontier stay.                                               *)
(***************************************************************************)
C10_FrontierGCExact ==
    \A p \in Peers : \A F \in Frontiers :
        LET s == seq[p]
            after == garbageCollect(s, F)
            Stays(a) == \/ a.id = start_id
                        \/ ~a.is_deleted
                        \/ a.id.clock > VCGet(F, a.id.client_id)
        IN  /\ after.atoms = SelectSeq(s.atoms, Stays)
            /\ garbageCollectResult(s, F) = Len(s.atoms) - Len(after.atoms)
            /\ after.atom_index = {after.atoms[i].id : i \in 1..Len(after.atoms)}
            /\ toString(after) = toString(s)

\* A peer has collected a tombstone and holds another one, which the frontier
\* of a lagging peer leaves in place and its own vector clock takes.
C10_Witness ==
    \E p \in Peers : \E F \in Frontiers :
        /\ seq[p].gc_stats_.total_tombstones_removed > 0
        /\ Tombstones(seq[p]) # {}
        /\ garbageCollectResult(seq[p], F) = 0
        /\ garbageCollectResult(seq[p], seq[p].vector_clock) > 0

(***************************************************************************)
(* Helpers of the claims about coordinated garbage collection.             *)
(***************************************************************************)
\* Peer q has applied the atom of this id: it created it or was handed it.
HasAppliedAtom(q, id) ==
    \/ id.client_id = q
    \/ \E m \in MergedAt(q) : m.atom.id = id

\* Peer q has applied the deletion of this id: it deleted it or was handed the
\* delete.
HasAppliedDelete(q, id) ==
    \/ \E m \in net : m.is_delete /\ m.from_user = q /\ m.delete_target = id
    \/ \E m \in recv[q] : m.is_delete /\ m.delete_target = id

\* The coordinators peer p can hold when it collects.
Coordinators(p) ==
    {Coordinated(p, heard, expired) :
        heard \in SUBSET (Peers \ {p}), expired \in SUBSET (Peers \ {p})}

(***************************************************************************)
(* C11. GC safety: whenever a peer's coordinated GC, with the frontier F   *)
(* that is the pointwise minimum of its own vector clock and those of its  *)
(* active peers, removes an atom A, every active peer that contributed to  *)
(* F has already applied both A and A's deletion.                          *)
(***************************************************************************)
C11_GCSafety ==
    \A p \in Peers : \A c \in Coordinators(p) :
        LET to_remove == FrontierToRemove(seq[p], computeStableFrontier(c))
        IN  \A i \in 1..Len(to_remove) : \A q \in getActivePeers(c) :
                HasAppliedAtom(q, to_remove[i]) /\ HasAppliedDelete(q, to_remove[i])

\* The ids garbageCollect(F) removes from s.
FrontierRemovedIds(s, F) ==
    LET to_remove == FrontierToRemove(s, F)
    IN  {to_remove[i] : i \in 1..Len(to_remove)}

(***************************************************************************)
(* C12. Causal safety: when a peer collects with the frontier F of its     *)
(* coordinator, every active peer whose vector clock contributed to F      *)
(* removes exactly the same atoms when it collects with the same F (peers  *)
(* that have not collected before).                                        *)
(***************************************************************************)
C12_CausalSafety ==
    \A p \in Peers : \A c \in Coordinators(p) :
        LET F == computeStableFrontier(c)
        IN  \A q \in getActivePeers(c) :
                NoGC(p) /\ NoGC(q) =>
                    FrontierRemovedIds(seq[p], F) = FrontierRemovedIds(seq[q], F)

\* sub is what is left of full when some of its elements are taken out.
RECURSIVE IsSubSeq(_, _)
IsSubSeq(sub, full) ==
    IF sub = <<>> THEN TRUE
    ELSE IF full = <<>> THEN FALSE
    ELSE IF Head(sub) = Head(full) THEN IsSubSeq(Tail(sub), Tail(full))
    ELSE IsSubSeq(sub, Tail(full))

\* after shows the text of before, and holds atoms of before in their order,
\* every visible one among them.
KeepsTextAndOrder(before, after) ==
    /\ toString(after) = toString(before)
    /\ IsSubSeq(after.atoms, before.atoms)
    /\ SelectSeq(after.atoms, IsVisible) = SelectSeq(before.atoms, IsVisible)

(***************************************************************************)
(* C13. Neither garbageCollect(F) nor garbageCollectLocal(min_age) changes *)
(* toString(): for every frontier and every minimum age the visible text   *)
(* and the relative order of the remaining atoms are the same before and   *)
(* after the call.                                                         *)
(***************************************************************************)
C13_GCKeepsText ==
    \A p \in Peers :
        /\ \A F \in Frontiers : KeepsTextAndOrder(seq[p], garbageCollect(seq[p], F))
        /\ \A min_age \in MinAges :
               KeepsTextAndOrder(seq[p], garbageCollectLocal(seq[p], min_age))

\* A collection has removed a tombstone of a peer that shows text, and a peer
\* holds a tombstone in front of a visible atom which both a frontier and a
\* minimum age take.
C13_Witness ==
    /\ \E p \in Peers : /\ seq[p].gc_stats_.total_tombstones_removed > 0
                        /\ toString(seq[p]) # <<>>
    /\ \E q \in Peers : \E F \in Frontiers : \E min_age \in MinAges :
           /\ \E i \in Tombstones(seq[q]) : \E j \in (i + 1)..Len(seq[q].atoms) :
                  /\ IsVisible(seq[q].atoms[j])
                  /\ seq[q].atoms[i].id \in FrontierRemovedIds(seq[q], F)
           /\ garbageCollectResult(seq[q], F) > 0
           /\ Len(LocalToRemove(seq[q], min_age)) > 0

\* The list positions of s whose atom has its deleted flag set.
DeletedAtoms(s) == {i \in 1..Len(s.atoms) : s.atoms[i].is_deleted}

(***************************************************************************)
(* C14. Tombstone counter accuracy: after any sequence of local inserts,   *)
(* remote merges, local and remote deletes and loads, tombstone_count      *)
(* equals the number of atoms of the sequence whose deleted flag is set.   *)
(***************************************************************************)
C14_TombstoneCountAccurate ==
    \A p \in Peers : seq[p].tombstone_count = Cardinality(DeletedAtoms(seq[p]))

(***************************************************************************)
(* C15. localDelete(i) with i at or beyond the visible length (an empty    *)
(* document included) returns the sentinel id {0,0} and mutates nothing:   *)
(* the sequence, the tombstone count, the Lamport clock and the vector     *)
(* clock are unchanged.                                                    *)
(***************************************************************************)
C15_DeleteOutOfRangeNoMutation ==
    \A p \in Peers :
        \A literal_index \in Len(toString(seq[p]))..(Len(toString(seq[p])) + 1) :
            /\ localDeleteReturns(seq[p], literal_index) = {OpID(0, 0)}
            /\ localDelete(seq[p], literal_index) = seq[p]

\* The sequence q without its element at position k.
WithoutAt(q, k) == [j \in 1..(Len(q) - 1) |-> IF j < k THEN q[j] ELSE q[j + 1]]

(***************************************************************************)
(* C16. localDelete(i) with 0 <= i < visible length tombstones exactly the *)
(* atom visible at index i: toString() loses exactly that character, the   *)
(* tombstone count grows by one, both clocks tick, no other atom changes,  *)
(* and the returned id is the id of that atom.                             *)
(***************************************************************************)
C16_DeleteInRange ==
    \A p \in Peers : \A literal_index \in 0..(Len(toString(seq[p])) - 1) :
        LET s == seq[p]
            t == localDelete(s, literal_index)
            it == DeleteWalk(s.atoms, 1, 0, literal_index)
        IN  /\ it # 0
            /\ s.atoms[it].content = toString(s)[literal_index + 1]
            /\ toString(t) = WithoutAt(toString(s), literal_index + 1)
            /\ t.tombstone_count = s.tombstone_count + 1
            /\ t.clock = s.clock + 1
            /\ VCGet(t.vector_clock, s.my_client_id) = VCGet(s.vector_clock, s.my_client_id) + 1
            /\ t.atoms = [s.atoms EXCEPT ![it].is_deleted = TRUE]
            /\ localDeleteReturns(s, literal_index) = {s.atoms[it].id}

\* The id of the last visible atom of s, the sentinel's when nothing is visible.
LastVisibleId(s) ==
    LET visible == {i \in 1..Len(s.atoms) : IsVisible(s.atoms[i])}
    IN  IF visible = {} THEN start_id
        ELSE s.atoms[CHOOSE i \in visible : \A j \in visible : j <= i].id

\* The indexes beyond the visible text that localInsert is called with.
BeyondEnd(s) == (Len(toString(s)) + 1)..(Len(toString(s)) + 2)

C18_LamportMonotonic ==
    [][lam'.calls > lam.calls =>
          /\ \A v \in lam.seen : lam'.counter > v
          /\ \A t \in lam'.merged : lam'.counter > t]_vars

\* Calls have completed after a peek of the fresh clock, a tick among them, and
\* a merge that made the clock jump ahead of the values returned before it.
C18_Witness ==
    /\ lam.calls >= 3
    /\ 0 \in lam.seen
    /\ lam.ticks # <<>>
    /\ \E t \in lam.merged : \E v \in lam.seen : 0 < v /\ v < t

(***************************************************************************)
(* C19. The Lamport clock under concurrent use: for any interleaving of    *)
(* tick() and merge(t) calls of several threads, no two tick() calls       *)
(* return the same value, no update is lost (the value is at least the     *)
(* initial value, 0, plus the number of completed calls), and after a      *)
(* completed merge(t) the value is greater than t.                         *)
(***************************************************************************)
C19_LamportConcurrent ==
    /\ \A i, j \in 1..Len(lam.ticks) : i # j => lam.ticks[i] # lam.ticks[j]
    /\ lam.counter >= lam.calls
    /\ \A t \in lam.merged : lam.counter > t

\* Two ticks and a merge have completed, and a thread is inside merge holding a
\* value of the counter that another thread has overtaken.
C19_Witness ==
    /\ Len(lam.ticks) >= 2
    /\ lam.merged # {}
    /\ \E th \in Threads : lam.pc[th] = "cas" /\ lam.current[th] # lam.counter

(***************************************************************************)
(* Helpers of the claims about comparing vector clocks: the four relations *)
(* over the union of the keys, a missing entry read as 0.                  *)
(***************************************************************************)
ClockIds(a, b) == DOMAIN a \cup DOMAIN b
ClockLeq(a, b) == \A id \in ClockIds(a, b) : VCGet(a, id) <= VCGet(b, id)
ClockEqual(a, b) == ClockLeq(a, b) /\ ClockLeq(b, a)
ClockBefore(a, b) == ClockLeq(a, b) /\ ~ClockLeq(b, a)
ClockAfter(a, b) == ClockBefore(b, a)
ClockConcurrent(a, b) == ~ClockLeq(a, b) /\ ~ClockLeq(b, a)

\* The vector clocks at hand: those of the peers, the frontiers (a fresh clock
\* of each peer among them) and the clock without entries.
Clocks == {seq[p].vector_clock : p \in Peers} \cup Frontiers \cup {EmptyVectorClock}

(***************************************************************************)
(* C20. VectorClock::compare distinguishes four outcomes over the union of *)
(* the keys: BEFORE iff every entry is <= the other's with at least one <, *)
(* AFTER symmetrically, EQUAL iff all entries are equal, CONCURRENT        *)
(* otherwise; the result for two concurrent clocks differs from the result *)
(* for two equal clocks.                                                   *)
(***************************************************************************)
C20_CompareFourOutcomes ==
    \A a, b \in Clocks :
        /\ compare(a, b) = -1 <=> ClockBefore(a, b)
        /\ compare(a, b) = 1 <=> ClockAfter(a, b)
        /\ \A c, d \in Clocks :
               ClockEqual(a, b) /\ ClockConcurrent(c, d) => compare(a, b) # compare(c, d)

\* The clocks that constrain the frontier of coordinator c: its own and those of
\* its active peers.
ContributingClocks(c) ==
    {c.my_vector_clock_} \cup {c.peers_[id].vector_clock : id \in getActivePeers(c)}

\* The ids a frontier is read at: every peer's, and one that no clock holds.
FrontierIds == Peers \cup {NumPeers + 1}

CoordinatorsAlone(p) == {c \in Coordinators(p) : getActivePeers(c) = {}}

(***************************************************************************)
(* C22. When the coordinator has no active peers (none updated yet, or all *)
(* timed out), computeStableFrontier() returns an empty clock, every entry *)
(* reading 0, so that performCoordinatedGC removes no atom.                *)
(***************************************************************************)
C22_NoActivePeersNoGC ==
    \A p \in Peers : \A c \in CoordinatorsAlone(p) :
        /\ \A k \in FrontierIds : VCGet(computeStableFrontier(c), k) = 0
        /\ performCoordinatedGCResult(c, seq[p]) = 0
        /\ performCoordinatedGC(c, seq[p]).atoms = seq[p].atoms

\* The time since the last update of peer id has reached the peer timeout.
TimedOut(id) ==
    /\ id \in DOMAIN coord.updated
    /\ coord.updated[id] >= 0
    /\ coord.gc.now - coord.updated[id] >= coord.gc.config_.peer_timeout_ms

\* Every entry of frontier F is at most that of clock vc.
Constrains(vc, F) == \A k \in 1..(NumPeers + 1) : VCGet(F, k) <= VCGet(vc, k)

(***************************************************************************)
(* C23. Peer liveness: a registered peer is active exactly when it has     *)
(* been updated at least once since it was registered and the time since   *)
(* its last update is below peer_timeout_ms, and it then constrains the    *)
(* stable frontier; a registered peer that is not active, because it was   *)
(* never updated or has timed out, does not constrain the frontier; and    *)
(* the next processHeartbeat for a peer makes it active, constraining the  *)
(* frontier, again.                                                        *)
(***************************************************************************)
C23_PeerLiveness ==
    LET c == coord.gc
    IN  \A id \in CoordPeerIds :
            /\ id \in getActivePeers(c) <=>
                   /\ id \in DOMAIN c.peers_
                   /\ coord.updated[id] >= 0
                   /\ c.now - coord.updated[id] < c.config_.peer_timeout_ms
            /\ id \in getActivePeers(c) =>
                   Constrains(c.peers_[id].vector_clock, computeStableFrontier(c))
            /\ id \in DOMAIN c.peers_ /\ id \notin getActivePeers(c) =>
                   computeStableFrontier(c) = computeStableFrontier(removePeer(c, id))
            /\ c.config_.peer_timeout_ms > 0 =>
                   \A vc \in HeartbeatClocks(id) :
                       LET d == processHeartbeat(c, id, vc)
                       IN  /\ id \in getActivePeers(d)
                           /\ Constrains(vc, computeStableFrontier(d))

\* A peer that had timed out was updated again and is active, holding the
\* frontier below the own clock, while another peer has timed out.
C23_Witness ==
    LET c == coord.gc
    IN  /\ \E id \in coord.revived :
               /\ id \in getActivePeers(c)
               /\ \E k \in 1..(NumPeers + 1) :
                      VCGet(computeStableFrontier(c), k) < VCGet(c.my_vector_clock_, k)
        /\ \E id \in CoordPeerIds : TimedOut(id)

(***************************************************************************)
(* C24. shouldTriggerGC() is true iff automatic GC is enabled, at least    *)
(* gc_interval_ms has passed since the last performCoordinatedGC (since    *)
(* the construction when there was none) and at least min_peers_for_gc     *)
(* peers are active; performCoordinatedGC resets the time of the last GC,  *)
(* so that right after it shouldTriggerGC() is false until gc_interval_ms  *)
(* has passed again.                                                       *)
(***************************************************************************)
C24_ShouldTriggerGC ==
    LET c == coord.gc
        interval == c.config_.gc_interval_ms
        d == performCoordinatedGCCoordinator(c)
    IN  /\ shouldTriggerGC(c) <=>
               /\ c.config_.auto_gc_enabled
               /\ c.now - coord.performed >= interval
               /\ Cardinality(getActivePeers(c)) >= c.config_.min_peers_for_gc
        /\ interval > 0 =>
               /\ ~shouldTriggerGC(d)
               /\ ~shouldTriggerGC(sleep_for(d, interval - 1))
               /\ shouldTriggerGC(sleep_for(d, interval)) <=>
                      /\ c.config_.auto_gc_enabled
                      /\ Cardinality(getActivePeers(sleep_for(d, interval)))
                             >= c.config_.min_peers_for_gc

\* The document was collected some time after the construction, the interval
\* has passed again, and GC is due with an active peer.
C24_Witness ==
    /\ coord.performed > 0
    /\ seq[1].gc_stats_.total_gc_runs > 0
    /\ coord.gc.now - coord.performed >= coord.gc.config_.gc_interval_ms
    /\ getActivePeers(coord.gc) # {}
    /\ shouldTriggerGC(coord.gc)

\* The streams at hand that are not OmniSync documents: each peer's document
\* saved and then damaged in the magic or the version.
BadStreams == UNION {Damaged(save(seq[q])) : q \in Peers}

\* s holds nothing but the start node.
Cleared(s) ==
    /\ \A i \in 1..Len(s.atoms) : s.atoms[i].id = start_id
    /\ s.atom_index \subseteq {start_id}
    /\ s.pending_orphans = EmptyMap
    /\ s.pending_deletes = {}

(***************************************************************************)
(* C25. load on a stream whose magic is not "OMNI" or whose version is     *)
(* neither 1 nor 2 returns failure and leaves the sequence cleared: no     *)
(* atom from before the call remains in the sequence, the index, the       *)
(* orphan buffer or the pending-delete set.                                *)
(***************************************************************************)
C25_BadStreamClears ==
    \A p \in Peers : \A stream \in BadStreams :
        /\ ~loadResult(stream)
        /\ Cleared(load(seq[p], stream))

\* The ids of the atoms of s.
AtomIds(s) == {s.atoms[i].id : i \in 1..Len(s.atoms)}

(***************************************************************************)
(* C26. Persistence round trip: when a sequence whose orphan buffer and    *)
(* pending-delete set are empty is saved and the stream is loaded into     *)
(* another Sequence, whatever its peer id and its state, the loaded        *)
(* sequence has the same atoms (order, ids, origins, contents, tombstone   *)
(* flags), the same owner peer id and the same vector clock; its index     *)
(* covers every loaded atom, to_string is equal, and a local_insert at the *)
(* end of the loaded sequence appends its character.                       *)
(***************************************************************************)
C26_SaveLoadRoundTrip ==
    \A p \in Peers : \A q \in Peers :
        (seq[p].pending_orphans = EmptyMap /\ seq[p].pending_deletes = {}) =>
            LET stream == save(seq[p])
                loaded == load(seq[q], stream)
                content == CharOf(nops + 1)
                end == Len(toString(loaded))
            IN  /\ loadResult(stream)
                /\ loaded.atoms = seq[p].atoms
                /\ loaded.my_client_id = seq[p].my_client_id
                /\ loaded.vector_clock = seq[p].vector_clock
                /\ loaded.atom_index = AtomIds(loaded)
                /\ toString(loaded) = toString(seq[p])
                /\ toString(localInsert(loaded, end, content))
                       = Append(toString(loaded), content)

\* A peer holds what it loaded from the other peer's stream: atoms of both
\* peers, a tombstone and visible text, under the other peer's id.
C26_Witness ==
    \E p \in Peers :
        /\ Len(file) = 1
        /\ seq[p].atoms = [i \in 1..Len(file[1].atoms) |-> LoadAtom(file[1].atoms[i])]
        /\ seq[p].my_client_id # p
        /\ seq[p].my_client_id = file[1].my_client_id
        /\ Tombstones(seq[p]) # {}
        /\ toString(seq[p]) # <<>>
        /\ \E i \in 2..Len(seq[p].atoms) : seq[p].atoms[i].id.client_id = p

\* The buffer without its last byte.
Front(buffer) == SubSeq(buffer, 1, Len(buffer) - 1)

C28_SiblingsDescending ==
    \A p \in Peers :
        \A i \in 2..Len(seq[p].atoms) : \A j \in 2..Len(seq[p].atoms) :
            (i < j /\ seq[p].atoms[i].origin = seq[p].atoms[j].origin) =>
                OpLess(seq[p].atoms[j].id, seq[p].atoms[i].id)

(***************************************************************************)
(* C29. Predecessor selection: for localInsert(i, c) the origin of the     *)
(* returned atom is the id of the atom at visible index i - 1 (tombstones  *)
(* and the start node not counted), or the start node's id (0,0) when      *)
(* i = 0, for every i from 0 to the visible length and wherever the        *)
(* tombstones lie.                                                         *)
(***************************************************************************)
C29_PredecessorSelection ==
    \A p \in Peers :
        LET visible == SelectSeq(seq[p].atoms, IsVisible)
        IN  \A i \in 0..Len(visible) :
                localInsertAtom(seq[p], i, CharOf(nops + 1)).origin =
                    IF i = 0 THEN start_id ELSE visible[i].id

(***************************************************************************)
(* C30. Origin presence: in every reachable state, after any inserts,      *)
(* merges, deletes and garbage collections, the atom named by the origin   *)
(* of every atom of the sequence other than the start node is in the       *)
(* sequence too.                                                           *)
(***************************************************************************)
C30_OriginPresent ==
    \A p \in Peers :
        \A i \in 2..Len(seq[p].atoms) :
            \E j \in 1..Len(seq[p].atoms) : seq[p].atoms[j].id = seq[p].atoms[i].origin

(***************************************************************************)
(* C31. Index consistency: in every reachable state the atom index holds   *)
(* exactly the ids of the atoms in the sequence, the start node included,  *)
(* each entry leads to the atom with that id, and no id occurs twice in    *)
(* the sequence.                                                           *)
(***************************************************************************)
C31_IndexConsistent ==
    \A p \in Peers :
        LET s == seq[p]
        IN  /\ s.atom_index = AtomIds(s)
            /\ \A id \in s.atom_index : s.atoms[PosOf(s.atoms, id)].id = id
            /\ \A i \in 1..Len(s.atoms) : \A j \in 1..Len(s.atoms) :
                   s.atoms[i].id = s.atoms[j].id => i = j

\* A peer that holds atoms of both peers has collected a tombstone and has
\* merged an atom since.
C31_Witness ==
    \E p \in Peers :
        /\ seq[p].gc_stats_.total_tombstones_removed >= 1
        /\ \E i \in 2..Len(seq[p].atoms) : seq[p].atoms[i].id.client_id = p
        /\ \E i \in 2..Len(seq[p].atoms) : seq[p].atoms[i].id.client_id # p
        /\ Cardinality(seq[p].atom_index) >= 3

\* The atoms peer p has produced by localInsert or has been handed by
\* remoteMerge so far.
SeenAtoms(p) ==
    {m.atom : m \in {k \in net : ~k.is_delete /\ (k.from_user = p \/ k \in recv[p])}}

\* The vector clock of s is at or beyond the id of every atom of A.
Dominates(s, A) ==
    \A a \in A : VCGet(s.vector_clock, a.id.client_id) >= a.id.clock

OrphanIds(s) ==
    {s.pending_orphans[slot[1]][slot[2]].id : slot \in OrphanSlots(s.pending_orphans)}

(***************************************************************************)
(* C33. Buffer exclusivity: in every reachable state no atom id is both in *)
(* the sequence and in the orphan buffer, and no id is both in the         *)
(* pending-delete set and the id of an atom in the sequence.               *)
(***************************************************************************)
C33_BuffersExclusive ==
    \A p \in Peers :
        /\ OrphanIds(seq[p]) \cap AtomIds(seq[p]) = {}
        /\ seq[p].pending_deletes \cap AtomIds(seq[p]) = {}

\* A peer holds an orphan and a pending delete, and a packet has come to it a
\* second time.
C33_Witness ==
    \E p \in Peers :
        /\ OrphanIds(seq[p]) # {}
        /\ seq[p].pending_deletes # {}
        /\ seq[p].total_orphan_count >= 2
        /\ nops > Cardinality(net)

\* How many times id is buffered as an orphan in s.
BufferedCount(s, id) ==
    Cardinality({slot \in OrphanSlots(s.pending_orphans) :
                    s.pending_orphans[slot[1]][slot[2]].id = id})

\* How many orphans s buffers.
BufferedOrphans(s) == Cardinality(OrphanSlots(s.pending_orphans))

\* How many copies of id the arrival of new_atom, which took s to t, removed
\* from the buffer.
EvictedCount(s, t, new_atom, id) ==
    BufferedCount(s, id) + (IF id = new_atom.id THEN 1 ELSE 0) - BufferedCount(t, id)

(***************************************************************************)
(* C34. Orphan bound: with a fixed orphan configuration whose bound is at  *)
(* least 1, the number of buffered orphans never exceeds                   *)
(* max_orphan_buffer_size; when an orphan arrives while the buffer is at   *)
(* the bound, max(1, floor(n/10)) of the n buffered orphans are evicted    *)
(* before it is appended, and the evicted ones are those with the smallest *)
(* id clocks.                                                              *)
(***************************************************************************)
C34_OrphanBound ==
    LET s == seq[1]
        n == BufferedOrphans(s)
        bound == s.orphan_config.max_orphan_buffer_size
    IN  /\ n <= bound
        /\ n = s.total_orphan_count
        /\ n = bound =>
               \A new_atom \in NextOrphans(s) :
                   LET t == remoteMerge(s, new_atom)
                       ids == OrphanIds(s) \cup {new_atom.id}
                       evicted == {id \in ids : EvictedCount(s, t, new_atom, id) > 0}
                       kept == {id \in OrphanIds(s) :
                                   BufferedCount(s, id) > EvictedCount(s, t, new_atom, id)}
                   IN  /\ \A id \in ids : EvictedCount(s, t, new_atom, id) \in 0..BufferedCount(s, id)
                       /\ BufferedOrphans(t) = n - Max(1, n \div 10) + 1
                       /\ BufferedCount(t, new_atom.id) >= 1
                       /\ \A e \in evicted : \A k \in kept : e.clock <= k.clock

\* The buffer is full with 20 orphans under two parents that arrived newest
\* first, after one arrival evicted the two oldest.
C34_Witness ==
    /\ seq[1].orphan_config.max_orphan_buffer_size = LargeOrphanBuffer
    /\ BufferedOrphans(seq[1]) = LargeOrphanBuffer - 1
    /\ Cardinality(DOMAIN seq[1].pending_orphans) = 2
    /\ nops = 1
    /\ \A id \in OrphanIds(seq[1]) : id.clock > 3 \/ id.clock = 1

(***************************************************************************)
(* C35. Fresh ids: every id localInsert produces at a peer has a clock     *)
(* strictly greater than the clock of every atom handed to remoteMerge at  *)
(* that peer before and of every id the peer issued before; so, the peer   *)
(* ids being distinct, no two atoms created anywhere share an id.          *)
(***************************************************************************)
C35_FreshIds ==
    /\ \A p \in Peers : \A literal_index \in 0..(Len(toString(seq[p])) + 1) :
           LET new_atom == localInsertAtom(seq[p], literal_index, CharOf(nops + 1))
           IN  /\ new_atom.id.client_id = p
               /\ \A a \in SeenAtoms(p) : new_atom.id.clock > a.id.clock
               /\ \A a \in AtomsOnNet : new_atom.id # a.id
    /\ \A a \in AtomsOnNet : \A b \in AtomsOnNet : a.id = b.id => a = b

\* A peer that has merged an atom of the other peer with a clock beyond its own
\* ids has inserted again, and both peers have issued an id with the same clock.
C35_Witness ==
    \E p \in Peers : \E a \in SeenAtoms(p) : \E b \in SeenAtoms(p) : \E c \in SeenAtoms(p) :
        /\ a.id.client_id = p /\ b.id.client_id # p /\ c.id.client_id = p
        /\ a.id.clock < b.id.clock /\ b.id.clock < c.id.clock
        /\ \E x \in AtomsOnNet : \E y \in AtomsOnNet :
               x.id.client_id # y.id.client_id /\ x.id.clock = y.id.clock

(***************************************************************************)
(* C36. The start node is permanent: in every reachable state, whatever    *)
(* ids remoteDelete and remoteMerge are called with and after both kinds   *)
(* of garbage collection, the first atom of the sequence is the start node *)
(* with id (0,0), its deleted flag is false, and it is never removed.      *)
(***************************************************************************)
C36_StartNodePermanent ==
    \A p \in Peers :
        /\ Len(seq[p].atoms) >= 1
        /\ seq[p].atoms[1].id = start_id
        /\ ~seq[p].atoms[1].is_deleted
        /\ start_id \in seq[p].atom_index

(***************************************************************************)
(* The coordinator of peer 1 called with any peer id, its own included:    *)
(* peers are registered, report their clocks, send heartbeats and are      *)
(* removed, whether they are in the table or not, while time passes.  A    *)
(* call that ends the process leaves phase.step = "terminated", and        *)
(* nothing is called after it.                                             *)
(***************************************************************************)
AllPeerIds == 1..(NumPeers + 1)

\* What is left when a call ended as outcome says.
Ended(outcome) ==
    /\ coord' = [coord EXCEPT !.gc = outcome.gc]
    /\ phase' = IF outcome.returned THEN phase ELSE [phase EXCEPT !.step = "terminated"]

\* gc_coord.registerPeer(id)
RegisterAnyPeer(id) ==
    /\ phase = Editing
    /\ coord' = [coord EXCEPT !.gc = registerPeer(@, id)]
    /\ UNCHANGED <<seq, net, recv, nops, snap, phase, file, lam, wire>>

\* gc_coord.updatePeerState(id, vc)
UpdateAnyPeerState(id) ==
    /\ phase = Editing
    /\ \E vc \in HeartbeatClocks(id) :
          \E outcome \in updatePeerStateOutcomes(coord.gc, id, vc) : Ended(outcome)
    /\ UNCHANGED <<seq, net, recv, nops, snap, file, lam, wire>>

\* gc_coord.processHeartbeat(id, vc)
ProcessAnyHeartbeat(id) ==
    /\ phase = Editing
    /\ \E vc \in HeartbeatClocks(id) :
          \E outcome \in processHeartbeatOutcomes(coord.gc, id, vc) : Ended(outcome)
    /\ UNCHANGED <<seq, net, recv, nops, snap, file, lam, wire>>

\* gc_coord.removePeer(id)
RemoveAnyPeer(id) ==
    /\ phase = Editing
    /\ coord' = [coord EXCEPT !.gc = removePeer(@, id)]
    /\ UNCHANGED <<seq, net, recv, nops, snap, phase, file, lam, wire>>

\* std::this_thread::sleep_for while the process runs.
SleepRunning ==
    /\ phase = Editing
    /\ Sleep

NextAnyPeer ==
    \/ \E id \in AllPeerIds :
          \/ RegisterAnyPeer(id)
          \/ UpdateAnyPeerState(id)
          \/ ProcessAnyHeartbeat(id)
          \/ RemoveAnyPeer(id)
    \/ SleepRunning

SpecAnyPeer == Init /\ [][NextAnyPeer]_vars

(***************************************************************************)
(* C37. Peer table totality: registering a peer twice is registering it    *)
(* once and removing it twice is removing it once; the coordinator's own   *)
(* id is never in the peer table; and every registerPeer, updatePeerState  *)
(* and processHeartbeat call returns, those with the coordinator's own id  *)
(* included, which leave the table as it was.                              *)
(***************************************************************************)
C37_PeerTableTotality ==
    LET gc == coord.gc
    IN  /\ \A id \in AllPeerIds :
               /\ registerPeer(registerPeer(gc, id), id) = registerPeer(gc, id)
               /\ removePeer(removePeer(gc, id), id) = removePeer(gc, id)
        /\ gc.my_peer_id_ \notin DOMAIN gc.peers_
        /\ phase.step # "terminated"
        /\ \A vc \in HeartbeatClocks(gc.my_peer_id_) :
               \A outcome \in updatePeerStateOutcomes(gc, gc.my_peer_id_, vc) :
                   outcome.returned => outcome.gc.peers_ = gc.peers_

(***************************************************************************)
(* C38. No resurrection after GC: an atom a peer has merged and that       *)
(* garbage collection has since removed from the peer's list (it is in     *)
(* neither the index nor the orphan buffer) stays out when the same atom   *)
(* is delivered to remoteMerge again, and toString() does not change.      *)
(***************************************************************************)
Collected(p) ==
    {packet.atom : packet \in {d \in recv[p] : ~d.is_delete}}
        \ {a \in AtomsOnNet : a.id \in seq[p].atom_index \cup OrphanIds(seq[p])}

C38_NoResurrection ==
    \A p \in Peers : \A a \in Collected(p) :
        LET t == remoteMerge(seq[p], a)
        IN  /\ a.id \notin t.atom_index
            /\ toString(t) = toString(seq[p])

(***************************************************************************)
(* C39. When localDelete(i) finds a visible atom and automatic GC is       *)
(* enabled, the atom it tombstoned is still in the list and in the index   *)
(* when `return it->id` reads it: the garbageCollectLocal run inside the   *)
(* call does not remove it, so the read yields the id of that atom.        *)
(***************************************************************************)
C39_ReturnedAtomPresent ==
    \A p \in Peers : \A literal_index \in 0..(Len(toString(seq[p])) - 1) :
        LET s == seq[p]
            it == DeleteWalk(s.atoms, 1, 0, literal_index)
            t == localDelete(s, literal_index)
        IN  (it # 0 /\ s.gc_config.auto_gc_enabled) =>
                /\ s.atoms[it].id \in t.atom_index
                /\ \E k \in 1..Len(t.atoms) :
                       t.atoms[k] = [s.atoms[it] EXCEPT !.is_deleted = TRUE]
                /\ \A returned \in localDeleteReturns(s, literal_index) :
                       returned = s.atoms[it].id

(***************************************************************************)
(* Eventual delivery with duplicates: the peers edit and broadcast, every  *)
(* packet reaches every other peer at least once (weak fairness of the     *)
(* sync loop's delivery), in any order, and packets already applied may    *)
(* arrive again.  The configuration is the default one: automatic GC is    *)
(* off and the orphan buffer is far from its bound, so nothing is          *)
(* collected or evicted.                                                   *)
(***************************************************************************)
NextDrain ==
    \E p \in Peers : LocalInsert(p) \/ LocalDelete(p) \/ Deliver(p) \/ Redeliver(p)

\* The delivery of the sync loop as recv shows it: peer p is handed a packet of
\* another peer that it has not applied.  The steps of NextDrain that change
\* recv are the Deliver steps, and Deliver(p) is enabled exactly when this is
\* (remoteMerge and remoteDelete accept every packet).
Handed(p) ==
    /\ phase.step = "edit"
    /\ \E packet \in net \ recv[p] :
          /\ packet.from_user # p
          /\ recv' = [recv EXCEPT ![p] = @ \cup {packet}]

SpecDrain == Init /\ [][NextDrain]_vars /\ \A p \in Peers : WF_recv(Handed(p))

\* Peer p holds no orphan and no pending delete.
Drained(p) ==
    /\ DOMAIN seq[p].pending_orphans = {}
    /\ seq[p].total_orphan_count = 0
    /\ seq[p].pending_deletes = {}

(***************************************************************************)
(* C40. Buffers drain under eventual delivery: without garbage collection  *)
(* and orphan eviction, when every atom and every delete is delivered at   *)
(* least once to every other peer, in any order and with duplicates, every *)
(* peer's orphan buffer and pending-delete set are eventually empty and    *)
(* stay empty; and a peer that has applied every packet of the others      *)
(* holds nothing in either buffer.                                         *)
(***************************************************************************)
C40_BuffersDrain ==
    /\ [](\A p \in Peers : Synced(p) => Drained(p))
    /\ <>[](\A p \in Peers : Drained(p))

\* After the last operation a peer holds an orphan that was handed to it twice
\* and a pending delete, while a packet it has not applied is still under way.
C40_Witness ==
    /\ nops = MaxOps
    /\ \E p \in Peers :
          /\ BufferedOrphans(seq[p]) > Cardinality(OrphanIds(seq[p]))
          /\ seq[p].pending_deletes # {}
          /\ ~Synced(p)

====
